---- MODULE Spec2Model ----
(***************************************************************************)
(* Account-pool arbiter, error classifier and request-dispatch loop of the *)
(* chat-completion gateway (src/src/sse/services/auth.js,                  *)
(* src/src/sse/handlers/chat.js, open-sse/services/accountFallback.js).    *)
(*                                                                         *)
(* Instants are positive integers (milliseconds scaled to clock units);   *)
(* a null instant, a null status and a null id are 0 / "" as JavaScript's  *)
(* falsy values, a null text is NullText.  Texts are sequences of          *)
(* one-character strings so that toLowerCase and includes are computed.    *)
(***************************************************************************)
EXTENDS Integers, Sequences, FiniteSets, TLC

\* ------------------------------------------------------------------------
\* Bounds of the model
\* ------------------------------------------------------------------------
MaxTime == 2

MaxFailures == 2

MaxSerial == 6

MaxSerialTime == 7

MaxElapse == 2

MaxModels == 3

MaxUrls == 3

MaxFrames == 2

MaxMessages == 3

\* ------------------------------------------------------------------------
\* JavaScript values
\* ------------------------------------------------------------------------
Null == 0

NoId == ""

NullText == <<"null">>

Undefined == -1

Min(a, b) == IF a < b THEN a ELSE b

RECURSIVE Pow2(_)
Pow2(n) == IF n = 0 THEN 1 ELSE 2 * Pow2(n - 1)

\* String.prototype.toLowerCase on the characters the texts use
LowerChar(c) ==
  CASE c = "A" -> "a" [] c = "C" -> "c" [] c = "D" -> "d" [] c = "E" -> "e"
    [] c = "L" -> "l" [] c = "M" -> "m" [] c = "N" -> "n" [] c = "O" -> "o"
    [] c = "Q" -> "q" [] c = "R" -> "r" [] c = "T" -> "t" [] c = "U" -> "u"
    [] c = "X" -> "x" [] OTHER -> c

toLowerCase(s) == [i \in 1..Len(s) |-> LowerChar(s[i])]

\* String.prototype.includes
includes(s, pat) ==
  \E i \in 1..(Len(s) - Len(pat) + 1) : SubSeq(s, i, i + Len(pat) - 1) = pat

\* String.prototype.slice(0, n)
slice0(s, n) == SubSeq(s, 1, Min(Len(s), n))

PatNoCredentials == <<"n", "o", " ", "c", "r", "e", "d", "e", "n", "t", "i", "a", "l", "s">>

PatRequestNotAllowed == <<"r", "e", "q", "u", "e", "s", "t", " ", "n", "o", "t", " ", "a", "l", "l", "o", "w", "e", "d">>

PatRateLimit == <<"r", "a", "t", "e", " ", "l", "i", "m", "i", "t">>

PatTooManyRequests == <<"t", "o", "o", " ", "m", "a", "n", "y", " ", "r", "e", "q", "u", "e", "s", "t", "s">>

PatQuotaExceeded == <<"q", "u", "o", "t", "a", " ", "e", "x", "c", "e", "e", "d", "e", "d">>

PatCapacity == <<"c", "a", "p", "a", "c", "i", "t", "y">>

PatOverloaded == <<"o", "v", "e", "r", "l", "o", "a", "d", "e", "d">>

TxtRateLimit == <<"R", "a", "t", "e", " ", "l", "i", "m", "i", "t", " ", "e", "x", "c", "e", "e", "d", "e", "d">>

TxtTooMany == <<"T", "o", "o", " ", "M", "a", "n", "y", " ", "R", "e", "q", "u", "e", "s", "t", "s">>

TxtQuota == <<"Q", "U", "O", "T", "A", " ", "E", "X", "C", "E", "E", "D", "E", "D">>

TxtCapacity == <<"a", "t", " ", "c", "a", "p", "a", "c", "i", "t", "y">>

TxtOverloaded == <<"O", "v", "e", "r", "l", "o", "a", "d", "e", "d">>

TxtNoCreds == <<"N", "o", " ", "C", "r", "e", "d", "e", "n", "t", "i", "a", "l", "s">>

TxtNotAllowed == <<"R", "e", "q", "u", "e", "s", "t", " ", "n", "o", "t", " ", "a", "l", "l", "o", "w", "e", "d">>

TxtNoCredsRate == <<"n", "o", " ", "c", "r", "e", "d", "e", "n", "t", "i", "a", "l", "s", " ", "r", "a", "t", "e", " ", "l", "i", "m", "i", "t">>

TxtRateNotAllowed == <<"r", "a", "t", "e", " ", "l", "i", "m", "i", "t", " ", "r", "e", "q", "u", "e", "s", "t", " ", "N", "O", "T", " ", "a", "l", "l", "o", "w", "e", "d">>

TxtUnauthorized == <<"U", "n", "a", "u", "t", "h", "o", "r", "i", "z", "e", "d">>

TxtRateSplit == <<"r", "a", "t", "e", " ", " ", "l", "i", "m", "i", "t">>

\* ------------------------------------------------------------------------
\* Configuration (open-sse/config/constants.js)
\* ------------------------------------------------------------------------
HTTP_STATUS ==
  [BAD_REQUEST |-> 400, UNAUTHORIZED |-> 401, PAYMENT_REQUIRED |-> 402,
   FORBIDDEN |-> 403, NOT_FOUND |-> 404, NOT_ACCEPTABLE |-> 406,
   REQUEST_TIMEOUT |-> 408, RATE_LIMITED |-> 429, SERVER_ERROR |-> 500,
   BAD_GATEWAY |-> 502, SERVICE_UNAVAILABLE |-> 503, GATEWAY_TIMEOUT |-> 504]

\* cooldowns in clock units; pairwise distinct so that the rules differ
COOLDOWN_MS ==
  [requestNotAllowed |-> 1, transient |-> 2, unauthorized |-> 3,
   paymentRequired |-> 4, notFound |-> 6]

BACKOFF_CONFIG == [base |-> 1, max |-> 5, maxLevel |-> 3]

\* ------------------------------------------------------------------------
\* Error classifier (open-sse/services/accountFallback.js)
\* ------------------------------------------------------------------------
\* mutant: the cooldown is not clipped to the configured maximum
getQuotaCooldown_Unclipped(backoffLevel) ==
  BACKOFF_CONFIG.base * Pow2(backoffLevel)

getQuotaCooldown(backoffLevel) ==
  LET cooldown == BACKOFF_CONFIG.base * Pow2(backoffLevel)
  IN  Min(cooldown, BACKOFF_CONFIG.max)

\* mutant: an error that gets the transient cooldown is final
FallbackResult_TransientFinal(cooldownMs, newBackoffLevel) ==
  [shouldFallback |-> cooldownMs # COOLDOWN_MS.transient,
   cooldownMs |-> cooldownMs, newBackoffLevel |-> newBackoffLevel]

FallbackResult(cooldownMs, newBackoffLevel) ==
  [shouldFallback |-> TRUE, cooldownMs |-> cooldownMs,
   newBackoffLevel |-> newBackoffLevel]

\* if (errorText): null and the empty string are falsy
TruthyText(t) == t # NullText /\ t # <<>>

\* mutant: the status is looked at before the error text
checkFallbackError_StatusFirst(status, errorText, backoffLevel) ==
  LET lowerError == toLowerCase(errorText)
      newLevel == Min(backoffLevel + 1, BACKOFF_CONFIG.maxLevel)
  IN  IF status = HTTP_STATUS.UNAUTHORIZED
        THEN FallbackResult(COOLDOWN_MS.unauthorized, Undefined)
      ELSE IF status = HTTP_STATUS.PAYMENT_REQUIRED \/ status = HTTP_STATUS.FORBIDDEN
        THEN FallbackResult(COOLDOWN_MS.paymentRequired, Undefined)
      ELSE IF status = HTTP_STATUS.NOT_FOUND
        THEN FallbackResult(COOLDOWN_MS.notFound, Undefined)
      ELSE IF status = HTTP_STATUS.RATE_LIMITED
        THEN FallbackResult(getQuotaCooldown(backoffLevel), newLevel)
      ELSE IF TruthyText(errorText) /\ includes(lowerError, PatNoCredentials)
        THEN FallbackResult(COOLDOWN_MS.notFound, Undefined)
      ELSE IF TruthyText(errorText) /\ includes(lowerError, PatRequestNotAllowed)
        THEN FallbackResult(COOLDOWN_MS.requestNotAllowed, Undefined)
      ELSE IF TruthyText(errorText)
              /\ (\/ includes(lowerError, PatRateLimit)
                  \/ includes(lowerError, PatTooManyRequests)
                  \/ includes(lowerError, PatQuotaExceeded)
                  \/ includes(lowerError, PatCapacity)
                  \/ includes(lowerError, PatOverloaded))
        THEN FallbackResult(getQuotaCooldown(backoffLevel), newLevel)
      ELSE FallbackResult(COOLDOWN_MS.transient, Undefined)

checkFallbackError(status, errorText, backoffLevel) ==
  LET lowerError == toLowerCase(errorText)
      newLevel == Min(backoffLevel + 1, BACKOFF_CONFIG.maxLevel)
      transientStatuses ==
        {HTTP_STATUS.NOT_ACCEPTABLE, HTTP_STATUS.REQUEST_TIMEOUT,
         HTTP_STATUS.SERVER_ERROR, HTTP_STATUS.BAD_GATEWAY,
         HTTP_STATUS.SERVICE_UNAVAILABLE, HTTP_STATUS.GATEWAY_TIMEOUT}
  IN  IF TruthyText(errorText) /\ includes(lowerError, PatNoCredentials)
        THEN FallbackResult(COOLDOWN_MS.notFound, Undefined)
      ELSE IF TruthyText(errorText) /\ includes(lowerError, PatRequestNotAllowed)
        THEN FallbackResult(COOLDOWN_MS.requestNotAllowed, Undefined)
      ELSE IF TruthyText(errorText)
              /\ (\/ includes(lowerError, PatRateLimit)
                  \/ includes(lowerError, PatTooManyRequests)
                  \/ includes(lowerError, PatQuotaExceeded)
                  \/ includes(lowerError, PatCapacity)
                  \/ includes(lowerError, PatOverloaded))
        THEN FallbackResult(getQuotaCooldown(backoffLevel), newLevel)
      ELSE IF status = HTTP_STATUS.UNAUTHORIZED
        THEN FallbackResult(COOLDOWN_MS.unauthorized, Undefined)
      ELSE IF status = HTTP_STATUS.PAYMENT_REQUIRED \/ status = HTTP_STATUS.FORBIDDEN
        THEN FallbackResult(COOLDOWN_MS.paymentRequired, Undefined)
      ELSE IF status = HTTP_STATUS.NOT_FOUND
        THEN FallbackResult(COOLDOWN_MS.notFound, Undefined)
      ELSE IF status = HTTP_STATUS.RATE_LIMITED
        THEN FallbackResult(getQuotaCooldown(backoffLevel), newLevel)
      ELSE IF status \in transientStatuses
        THEN FallbackResult(COOLDOWN_MS.transient, Undefined)
      ELSE FallbackResult(COOLDOWN_MS.transient, Undefined)

\* mutant: newBackoffLevel ?? 0
Coalesce_OrZero(newBackoffLevel, backoffLevel) ==
  IF newBackoffLevel = Undefined THEN 0 ELSE newBackoffLevel

\* newBackoffLevel ?? backoffLevel (auth.js markAccountUnavailable)
Coalesce(newBackoffLevel, backoffLevel) ==
  IF newBackoffLevel = Undefined THEN backoffLevel ELSE newBackoffLevel

\* mutant: the comparison with the clock is inverted
isAccountUnavailable_Inverted(unavailableUntil, dateNow) ==
  IF unavailableUntil = Null THEN FALSE ELSE unavailableUntil < dateNow

isAccountUnavailable(unavailableUntil, dateNow) ==
  IF unavailableUntil = Null THEN FALSE ELSE unavailableUntil > dateNow

getUnavailableUntil(cooldownMs, dateNow) == dateNow + cooldownMs

\* ------------------------------------------------------------------------
\* Credential store (src/lib/localDb): connections and settings
\* ------------------------------------------------------------------------
ConnIds == {"A", "B"}

Providers == {"p1", "p2"}

NewConnection(id, provider, priority) ==
  [id |-> id, provider |-> provider, priority |-> priority, isActive |-> TRUE,
   rateLimitedUntil |-> Null, testStatus |-> "active", lastError |-> NullText,
   errorCode |-> Null, lastErrorAt |-> Null, backoffLevel |-> 0,
   lastUsedAt |-> Null, consecutiveUseCount |-> 0,
   accessToken |-> "access-" \o id, refreshToken |-> "refresh-" \o id]

\* provider p1 owns A (priority 1) and B (priority 2); p2 has no connection
InitStore ==
  [id \in ConnIds |->
     IF id = "A" THEN NewConnection("A", "p1", 1)
                 ELSE NewConnection("B", "p1", 2)]

\* getProviderConnections({provider, isActive}): the matching connections,
\* sorted by priority ascending
getProviderConnections(st, provider, activeOnly) ==
  LET ids == {id \in ConnIds : /\ st[id].provider = provider
                               /\ (activeOnly => st[id].isActive)}
      rank(id) == 1 + Cardinality({o \in ids : st[o].priority < st[id].priority})
  IN  [k \in 1..Cardinality(ids) |-> st[CHOOSE id \in ids : rank(id) = k]]

\* mutant: the update writes a fresh record with the patched fields
updateProviderConnection_Replace(st, id, patch) ==
  [st EXCEPT ![id] =
     [f \in DOMAIN st[id] |->
        IF f \in DOMAIN patch THEN patch[f]
        ELSE IF f \in {"id", "provider", "priority", "isActive"} THEN st[id][f]
        ELSE NewConnection(id, st[id].provider, st[id].priority)[f]]]

\* updateProviderConnection(id, patch): atomic update of the patched fields
updateProviderConnection(st, id, patch) ==
  [st EXCEPT ![id] =
     [f \in DOMAIN st[id] |-> IF f \in DOMAIN patch THEN patch[f] ELSE st[id][f]]]

\* Array.prototype.filter
RECURSIVE FilterSeq(_, _)
FilterSeq(s, keep) ==
  IF s = <<>> THEN <<>>
  ELSE IF keep[1] THEN <<s[1]>> \o FilterSeq(Tail(s), Tail(keep))
  ELSE FilterSeq(Tail(s), Tail(keep))

\* Array.prototype.sort with a comparator: stable, so elements that compare
\* equal keep their input order; cmp[i][j] is the comparator's answer for
\* (s[i], s[j])
StableSort(s, cmp) ==
  LET before(j, i) == \/ cmp[j][i] < 0
                      \/ (cmp[j][i] = 0 /\ j < i)
      rank(i) == 1 + Cardinality({j \in 1..Len(s) : j # i /\ before(j, i)})
  IN  [k \in 1..Len(s) |-> s[CHOOSE i \in 1..Len(s) : rank(i) = k]]

\* ------------------------------------------------------------------------
\* Account arbiter: selection (src/src/sse/services/auth.js)
\* ------------------------------------------------------------------------
\* a.priority || 999
PriorityOr999(c) == IF c.priority = 0 THEN 999 ELSE c.priority

\* mutant: the filter does not look at the cooldowns
availableConnections_ExcludedOnly(connections, excludeConnectionId, dateNow) ==
  FilterSeq(connections,
    [i \in 1..Len(connections) |->
       IF excludeConnectionId # NoId /\ connections[i].id = excludeConnectionId
         THEN FALSE
       ELSE TRUE])

\* mutant: the filter does not look at excludeConnectionId
availableConnections_IgnoreExcluded(connections, excludeConnectionId, dateNow) ==
  FilterSeq(connections,
    [i \in 1..Len(connections) |->
       IF isAccountUnavailable(connections[i].rateLimitedUntil, dateNow)
         THEN FALSE
       ELSE TRUE])

\* connections.filter(...): drop the excluded and the rate-limited ones
availableConnections(connections, excludeConnectionId, dateNow) ==
  FilterSeq(connections,
    [i \in 1..Len(connections) |->
       IF excludeConnectionId # NoId /\ connections[i].id = excludeConnectionId
         THEN FALSE
       ELSE IF isAccountUnavailable(connections[i].rateLimitedUntil, dateNow)
         THEN FALSE
       ELSE TRUE])

\* accountFallback.js getEarliestRateLimitedUntil: earliest future instant
getEarliestRateLimitedUntil(accounts, dateNow) ==
  LET future == {accounts[i].rateLimitedUntil : i \in
                   {j \in 1..Len(accounts) :
                       /\ accounts[j].rateLimitedUntil # Null
                       /\ accounts[j].rateLimitedUntil > dateNow}}
  IN  IF future = {} THEN Null
      ELSE CHOOSE u \in future : \A v \in future : u <= v

\* comparator of byRecency: most recently used first, never used last
CmpRecency(a, b) ==
  IF a.lastUsedAt = Null /\ b.lastUsedAt = Null
    THEN PriorityOr999(a) - PriorityOr999(b)
  ELSE IF a.lastUsedAt = Null THEN 1
  ELSE IF b.lastUsedAt = Null THEN -1
  ELSE b.lastUsedAt - a.lastUsedAt

\* comparator of sortedByOldest: never used first, then least recently used
CmpOldest(a, b) ==
  IF a.lastUsedAt = Null /\ b.lastUsedAt = Null
    THEN PriorityOr999(a) - PriorityOr999(b)
  ELSE IF a.lastUsedAt = Null THEN -1
  ELSE IF b.lastUsedAt = Null THEN 1
  ELSE a.lastUsedAt - b.lastUsedAt

\* settings.fallbackStrategy || "fill-first"
StrategyOf(s) == IF s.fallbackStrategy = "" THEN "fill-first" ELSE s.fallbackStrategy

\* settings.stickyRoundRobinLimit || 3
StickyLimitOf(s) ==
  IF s.stickyRoundRobinLimit = 0 THEN 3 ELSE s.stickyRoundRobinLimit

\* mutant: the current connection is kept for one use too many
roundRobinChoice_OffByOne(available, stickyLimit, dateNow) ==
  LET byRecency == StableSort(available, [i \in 1..Len(available) |-> [j \in 1..Len(available) |->
                          CmpRecency(available[i], available[j])]])
      current == byRecency[1]
      currentCount == current.consecutiveUseCount
      sortedByOldest == StableSort(available, [i \in 1..Len(available) |-> [j \in 1..Len(available) |->
                          CmpOldest(available[i], available[j])]])
  IN  IF current.lastUsedAt # Null /\ currentCount <= stickyLimit
        THEN [connection |-> current,
              patch |-> [lastUsedAt |-> dateNow,
                         consecutiveUseCount |-> current.consecutiveUseCount + 1]]
        ELSE [connection |-> sortedByOldest[1],
              patch |-> [lastUsedAt |-> dateNow, consecutiveUseCount |-> 1]]

\* the round-robin branch: the chosen connection and the patch it persists
roundRobinChoice(available, stickyLimit, dateNow) ==
  LET byRecency == StableSort(available, [i \in 1..Len(available) |-> [j \in 1..Len(available) |->
                          CmpRecency(available[i], available[j])]])
      current == byRecency[1]
      currentCount == current.consecutiveUseCount
      sortedByOldest == StableSort(available, [i \in 1..Len(available) |-> [j \in 1..Len(available) |->
                          CmpOldest(available[i], available[j])]])
  IN  IF current.lastUsedAt # Null /\ currentCount < stickyLimit
        THEN [connection |-> current,
              patch |-> [lastUsedAt |-> dateNow,
                         consecutiveUseCount |-> current.consecutiveUseCount + 1]]
        ELSE [connection |-> sortedByOldest[1],
              patch |-> [lastUsedAt |-> dateNow, consecutiveUseCount |-> 1]]

\* mutant: the last available connection instead of the first
fillFirstChoice_Last(available) == available[Len(available)]

\* the fill-first branch: the first available connection
fillFirstChoice(available) == available[1]

\* the AllRateLimited sentinel built when no connection is available
\* (auth.js lines 61-78); the null result when no cooldown lies ahead
NoConn == NewConnection(NoId, "", 0)

NoCredentials ==
  [kind |-> "none", connection |-> NoConn, retryAfter |-> Null,
   lastError |-> NullText, lastErrorCode |-> Null]

NullCredentials == [NoCredentials EXCEPT !.kind = "null"]

CmpRateLimitedUntil(a, b) == a.rateLimitedUntil - b.rateLimitedUntil

\* mutant: the error of the first active connection, whichever recovers first
allRateLimitedResult_FirstActive(connections, dateNow) ==
  LET earliest == getEarliestRateLimitedUntil(connections, dateNow)
      earliestConn == connections[1]
  IN  IF earliest # Null
        THEN [kind |-> "allRateLimited", connection |-> NoConn,
              retryAfter |-> earliest,
              lastError |-> IF TruthyText(earliestConn.lastError)
                              THEN earliestConn.lastError ELSE NullText,
              lastErrorCode |-> earliestConn.errorCode]
        ELSE NullCredentials

allRateLimitedResult(connections, dateNow) ==
  LET earliest == getEarliestRateLimitedUntil(connections, dateNow)
      rateLimitedConns ==
        FilterSeq(connections,
          [i \in 1..Len(connections) |->
             /\ connections[i].rateLimitedUntil # Null
             /\ connections[i].rateLimitedUntil > dateNow])
      earliestConn == StableSort(rateLimitedConns, [i \in 1..Len(rateLimitedConns) |-> [j \in 1..Len(rateLimitedConns) |->
                          CmpRateLimitedUntil(rateLimitedConns[i], rateLimitedConns[j])]])[1]
  IN  IF earliest # Null
        THEN [kind |-> "allRateLimited", connection |-> NoConn,
              retryAfter |-> earliest,
              lastError |-> IF TruthyText(earliestConn.lastError)
                              THEN earliestConn.lastError ELSE NullText,
              lastErrorCode |-> earliestConn.errorCode]
        ELSE NullCredentials

\* the result for a provider without active connections (auth.js lines 26-43)
noActiveResult(allConnections, dateNow) ==
  LET earliest == IF Len(allConnections) > 0
                    THEN getEarliestRateLimitedUntil(allConnections, dateNow)
                    ELSE Null
  IN  IF earliest # Null
        THEN [NoCredentials EXCEPT !.kind = "allRateLimited", !.retryAfter = earliest]
        ELSE NullCredentials

connectionResult(connection) ==
  [NoCredentials EXCEPT !.kind = "conn", !.connection = connection]

\* clearAccountError: does the snapshot show an error?
hasError(currentConnection) ==
  \/ currentConnection.testStatus = "unavailable"
  \/ TruthyText(currentConnection.lastError)
  \/ currentConnection.rateLimitedUntil # Null

clearPatch ==
  [testStatus |-> "active", lastError |-> NullText, lastErrorAt |-> Null,
   rateLimitedUntil |-> Null, backoffLevel |-> 0]

\* markAccountUnavailable: the level read from the store, conn?.backoffLevel || 0
readBackoffLevel(connections, connectionId) ==
  LET found == {i \in 1..Len(connections) : connections[i].id = connectionId}
  IN  IF found = {} THEN 0 ELSE connections[CHOOSE i \in found : TRUE].backoffLevel

\* typeof errorText === "string" ? errorText.slice(0, 100) : "Provider error"
ProviderErrorText == <<"P", "r", "o", "v", "i", "d", "e", "r", " ", "e", "r", "r", "o", "r">>

reasonOf(errorText) ==
  IF errorText = NullText THEN ProviderErrorText ELSE slice0(errorText, 100)

markPatch(status, errorText, backoffLevel, dateNow) ==
  LET c == checkFallbackError(status, errorText, backoffLevel)
  IN  [rateLimitedUntil |-> getUnavailableUntil(c.cooldownMs, dateNow),
       testStatus |-> "unavailable",
       lastError |-> reasonOf(errorText),
       errorCode |-> status,
       lastErrorAt |-> dateNow,
       backoffLevel |-> Coalesce(c.newBackoffLevel, backoffLevel)]

\* markAccountUnavailable behind the read of the level: what it returns, and
\* the patch it writes unless the classifier says no fallback
markAccountUnavailable(status, errorText, backoffLevel, dateNow) ==
  LET c == checkFallbackError(status, errorText, backoffLevel)
  IN  IF ~c.shouldFallback
        THEN [shouldFallback |-> FALSE, cooldownMs |-> 0, written |-> FALSE,
              patch |-> [id |-> NoId]]
        ELSE [shouldFallback |-> TRUE, cooldownMs |-> c.cooldownMs,
              written |-> TRUE,
              patch |-> markPatch(status, errorText, backoffLevel, dateNow)]

\* ------------------------------------------------------------------------
\* Responses (open-sse/utils/error.js) and the human retry hint
\* ------------------------------------------------------------------------
\* Math.ceil(ms / 1000)
CeilSeconds(ms) == -((-ms) \div 1000)

Digits == <<"0", "1", "2", "3", "4", "5", "6", "7", "8", "9">>

\* String(n) and `${n}` for an integer n
RECURSIVE DecimalString(_)
DecimalString(n) ==
  IF n < 0 THEN <<"-">> \o DecimalString(-n)
  ELSE IF n < 10 THEN <<Digits[n + 1]>>
  ELSE DecimalString(n \div 10) \o <<Digits[(n % 10) + 1]>>

\* parts.join(" ")
RECURSIVE Join(_)
Join(parts) ==
  IF Len(parts) = 0 THEN <<>>
  ELSE IF Len(parts) = 1 THEN parts[1]
  ELSE parts[1] \o <<" ">> \o Join(Tail(parts))

TxtResetAfter == <<"r", "e", "s", "e", "t", " ", "a", "f", "t", "e", "r", " ">>

\* mutant: the hint in seconds only, without the split into h, m and s
formatRetryAfter_SecondsOnly(rateLimitedUntil, dateNow) ==
  IF rateLimitedUntil = Null THEN <<>>
  ELSE IF rateLimitedUntil - dateNow <= 0 THEN TxtResetAfter \o <<"0", "s">>
  ELSE TxtResetAfter \o DecimalString(CeilSeconds(rateLimitedUntil - dateNow)) \o <<"s">>

\* accountFallback.js 126-139
formatRetryAfter(rateLimitedUntil, dateNow) ==
  IF rateLimitedUntil = Null THEN <<>>
  ELSE LET diffMs == rateLimitedUntil - dateNow
           totalSec == CeilSeconds(diffMs)
           h == totalSec \div 3600
           m == (totalSec % 3600) \div 60
           s == totalSec % 60
           hPart == IF h > 0 THEN <<DecimalString(h) \o <<"h">>>> ELSE <<>>
           mPart == IF m > 0 THEN <<DecimalString(m) \o <<"m">>>> ELSE <<>>
           sPart == IF s > 0 \/ Len(hPart \o mPart) = 0
                      THEN <<DecimalString(s) \o <<"s">>>> ELSE <<>>
       IN  IF diffMs <= 0 THEN TxtResetAfter \o <<"0", "s">>
           ELSE TxtResetAfter \o Join(hPart \o mPart \o sPart)

\* error.js 30-38; the type and code of the body come from tables of
\* constants.js and are left out
errorResponse(statusCode, message) ==
  [status |-> statusCode,
   body |-> [error |-> [message |-> message]],
   headers |-> [h \in {} |-> <<>>]]

\* mutant: the seconds without the minimum of 1
unavailableResponse_NoMinimum(statusCode, message, retryAfter, retryAfterHuman, dateNow) ==
  LET retryAfterSec == CeilSeconds(retryAfter - dateNow)
      msg == message \o <<" ", "(">> \o retryAfterHuman \o <<")">>
  IN  [status |-> statusCode,
       body |-> [error |-> [message |-> msg]],
       headers |-> [h \in {"Retry-After"} |-> DecimalString(retryAfterSec)]]

\* error.js 157-170
unavailableResponse(statusCode, message, retryAfter, retryAfterHuman, dateNow) ==
  LET seconds == CeilSeconds(retryAfter - dateNow)
      retryAfterSec == IF seconds > 1 THEN seconds ELSE 1
      msg == message \o <<" ", "(">> \o retryAfterHuman \o <<")">>
  IN  [status |-> statusCode,
       body |-> [error |-> [message |-> msg]],
       headers |-> [h \in {"Retry-After"} |-> DecimalString(retryAfterSec)]]

\* the response of a successful upstream call
okResponse ==
  [status |-> 200, body |-> [choices |-> <<>>], headers |-> [h \in {} |-> <<>>]]

\* no response yet
NoneResponse ==
  [status |-> Null, body |-> [error |-> [message |-> <<>>]],
   headers |-> [h \in {} |-> <<>>]]

\* ------------------------------------------------------------------------
\* State
\* ------------------------------------------------------------------------
VARIABLES
  now,             \* Date.now()
  store,           \* the connections of the credential store, by id
  settings,        \* the settings of the credential store
  selectionMutex,  \* auth.js: the promise at the tail of the mutex chain
  resolved,        \* the promises of the chain that are resolved
  nextPromise,     \* the next promise to create
  req,             \* per request: position and locals of handleSingleModelChat
  lastEntered,     \* history: the promise of the last call that entered
  rlCommits,       \* history: committed rate-limit marks per connection
  everCleared,     \* history: connections whose error state was ever cleared
  failures,        \* the upstream failures so far
  served,          \* history: the connections handed to serial requests
  cls,             \* the classifier applied to a stream of failures
  una,             \* a request that meets a provider in cooldown (milliseconds)
  chat,            \* handleChat and handleComboChat: position and locals
  refresh,         \* needsRefresh and refreshWithRetry: position and locals
  exec,            \* BaseExecutor.execute: position and locals
  cursor,          \* CursorExecutor.execute under a cancellation signal
  decode,          \* the Cursor frame decoder: buffer, position and output
  framing,         \* generateCursorBody and parseConnectRPCFrame
  checksum,        \* generateChecksum: the clock and the header
  clear            \* clearAccountError: the snapshot and the store write

\* the handlers and services that are modelled on their own
handlerVars == <<una, chat, refresh>>

\* the executors, the Cursor codec and clearAccountError on their own
executorVars == <<exec, cursor, decode, framing, checksum, clear>>

\* account selection, the selection mutex and the classifier
coreVars == <<now, store, settings, selectionMutex, resolved, nextPromise,
              req, lastEntered, rlCommits, everCleared, failures, served,
              cls>>

vars == <<now, store, settings, selectionMutex, resolved, nextPromise, req,
          lastEntered, rlCommits, everCleared, failures, served, cls,
          una, chat, refresh, exec, cursor, decode, framing, checksum,
          clear>>

Reqs == {"r1", "r2"}

NoPatch == [id |-> NoId]

NoResult == [status |-> Null, error |-> NullText]

NoResponse == [status |-> Null, kind |-> "none"]

IdleRequest ==
  [pc |-> "idle", provider |-> "", excludeConnectionId |-> NoId,
   lastError |-> NullText, lastStatus |-> Null,
   currentMutex |-> 0, resolveMutex |-> 0,
   connections |-> <<>>, selNow |-> Null, credentials |-> NoCredentials,
   patch |-> NoPatch, result |-> NoResult, response |-> NoResponse,
   raced |-> FALSE, attempted |-> {}]

InitCls ==
  [status |-> Null, errorText |-> NullText, backoffLevel |-> 0,
   out |-> FallbackResult(0, Undefined), stored |-> 0]

\* upstream failures (status, error text) a request can meet
Failures ==
  {[status |-> 429, error |-> TxtRateLimit],
   [status |-> 401, error |-> NullText]}

\* a request that finds its provider in cooldown: position, the result of
\* getProviderCredentials, the response, and what happened on the way
IdleUna ==
  [pc |-> "idle", provider |-> "", credentials |-> NoCredentials,
   allCooling |-> FALSE, selectedAt |-> Null, respondedAt |-> Null,
   response |-> NoneResponse, upstreamCalls |-> 0, elapsed |-> 0]

\* JSON values of a request body, as far as handleChat looks at them
JsUndefined == [type |-> "undefined"]

JsNull == [type |-> "null"]

JsString(value) == [type |-> "string", value |-> value]

\* request.json(): it throws, or it returns the parsed body
NoRequest == [parse |-> "none", body |-> JsUndefined]

IdleChat ==
  [pc |-> "idle", request |-> NoRequest, modelStr |-> JsUndefined,
   combos |-> 0, models |-> <<>>, i |-> 0, lastError |-> NullText,
   earliestRetryAfter |-> Null, lastStatus |-> Null,
   invoked |-> <<>>, results |-> <<>>, response |-> NoneResponse,
   comboLookups |-> 0]

IdleRefresh ==
  [pc |-> "idle", expiresAt |-> Null, checkedAt |-> Null, stale |-> FALSE,
   attempt |-> 0, calls |-> 0, delays |-> <<>>, outcomes |-> <<>>,
   result |-> "none"]

IdleExec == [pc |-> "idle"]

IdleCursor == [pc |-> "idle"]

IdleDecode == [pc |-> "idle"]

IdleFraming == [pc |-> "idle"]

IdleChecksum == [pc |-> "idle"]

IdleClear == [pc |-> "idle"]

InitExecutors ==
  /\ exec = IdleExec
  /\ cursor = IdleCursor
  /\ decode = IdleDecode
  /\ framing = IdleFraming
  /\ checksum = IdleChecksum
  /\ clear = IdleClear

InitHandlers ==
  /\ una = IdleUna
  /\ chat = IdleChat
  /\ refresh = IdleRefresh
  /\ InitExecutors

Init ==
  /\ now = 1
  /\ store = InitStore
  /\ settings \in {[fallbackStrategy |-> s, stickyRoundRobinLimit |-> 2] :
                     s \in {"fill-first", "round-robin"}}
  /\ selectionMutex = 0
  /\ resolved = {0}
  /\ nextPromise = 1
  /\ req = [r \in Reqs |-> IdleRequest]
  /\ lastEntered = 0
  /\ rlCommits = [id \in ConnIds |-> 0]
  /\ everCleared = {}
  /\ failures = 0
  /\ served = <<>>
  /\ cls = InitCls
  /\ InitHandlers

\* ------------------------------------------------------------------------
\* handleSingleModelChat and getProviderCredentials, one action per stretch
\* of code between two awaited store or upstream operations
\* ------------------------------------------------------------------------
Tick ==
  /\ now < MaxTime
  /\ now' = now + 1
  /\ UNCHANGED <<store, settings, selectionMutex, resolved, nextPromise, req,
                 lastEntered, rlCommits, everCleared, failures, served, cls,
                 handlerVars, executorVars>>

\* auth.js 16-18: take the tail of the chain and append an own promise
Acquire(r, reqr) ==
  /\ req' = [req EXCEPT ![r] = [reqr EXCEPT !.pc = "await",
                                            !.currentMutex = selectionMutex,
                                            !.resolveMutex = nextPromise]]
  /\ selectionMutex' = nextPromise
  /\ nextPromise' = nextPromise + 1

\* chat.js 96-102: a request for a provider starts its account loop and
\* calls getProviderCredentials
StartRequest(r, p) ==
  /\ req[r].pc = "idle"
  /\ Acquire(r, [IdleRequest EXCEPT !.provider = p])
  /\ UNCHANGED <<now, store, settings, resolved, lastEntered, rlCommits,
                 everCleared, failures, served, cls,
                 handlerVars, executorVars>>

\* chat.js 158, 102: the loop continues with the next getProviderCredentials
RetrySelect(r) ==
  /\ req[r].pc = "select"
  /\ Acquire(r, req[r])
  /\ UNCHANGED <<now, store, settings, resolved, lastEntered, rlCommits,
                 everCleared, failures, served, cls,
                 handlerVars, executorVars>>

\* is the request inside getProviderCredentials, past its read of the
\* connections and before its return?
InCriticalSection(q) == req[q].pc \in {"readAll", "settings", "write", "written"}

\* mutant: the call does not wait for the promise it took from the chain
MutexFree_NoAwait(r) == TRUE

\* mutant: a busy flag instead of the promise chain
MutexFree_BusyFlag(r) == \A q \in Reqs : ~InCriticalSection(q)

\* auth.js 21: await currentMutex
MutexFree(r) == req[r].currentMutex \in resolved

\* auth.js 142-143: finally { resolveMutex() }
Release(r) == resolved' = resolved \cup {req[r].resolveMutex}

\* chat.js 104-118: no usable account, answer without an upstream call
unavailableStatus(lastStatus, credentials) ==
  IF lastStatus # Null THEN lastStatus
  ELSE IF credentials.lastErrorCode # Null THEN credentials.lastErrorCode
  ELSE HTTP_STATUS.SERVICE_UNAVAILABLE

\* mutant: null on the first iteration is answered 503 as well
unavailableAnswer_Always503(reqr, credentials) ==
  IF credentials.kind = "allRateLimited"
    THEN [status |-> unavailableStatus(reqr.lastStatus, credentials),
          kind |-> "unavailable"]
  ELSE [status |-> IF reqr.lastStatus # Null THEN reqr.lastStatus
                   ELSE HTTP_STATUS.SERVICE_UNAVAILABLE,
        kind |-> "error"]

unavailableAnswer(reqr, credentials) ==
  IF credentials.kind = "allRateLimited"
    THEN [status |-> unavailableStatus(reqr.lastStatus, credentials),
          kind |-> "unavailable"]
  ELSE IF reqr.excludeConnectionId = NoId
    THEN [status |-> HTTP_STATUS.BAD_REQUEST, kind |-> "no_credentials"]
  ELSE [status |-> IF reqr.lastStatus # Null THEN reqr.lastStatus
                   ELSE HTTP_STATUS.SERVICE_UNAVAILABLE,
        kind |-> "error"]

\* auth.js 21-78: the mutex is free; read the active connections, filter,
\* return when none is left
ReadConnections(r) ==
  /\ req[r].pc = "await"
  /\ MutexFree(r)
  /\ lastEntered' = req[r].resolveMutex
  /\ LET connections == getProviderConnections(store, req[r].provider, TRUE)
         available == availableConnections(connections,
                                           req[r].excludeConnectionId, now)
         none == allRateLimitedResult(connections, now)
     IN  IF Len(connections) = 0
           THEN /\ req' = [req EXCEPT ![r].pc = "readAll"]
                /\ UNCHANGED resolved
         ELSE IF Len(available) = 0
           THEN /\ req' = [req EXCEPT ![r].pc = "done",
                              ![r].credentials = none,
                              ![r].response = unavailableAnswer(req[r], none)]
                /\ Release(r)
         ELSE /\ req' = [req EXCEPT ![r].pc = "settings",
                                    ![r].connections = connections,
                                    ![r].selNow = now]
              /\ UNCHANGED resolved
  /\ UNCHANGED <<now, store, settings, selectionMutex, nextPromise,
                 rlCommits, everCleared, failures, served, cls,
                 handlerVars, executorVars>>

\* auth.js 27-42: no active connection, look at the inactive ones
ReadAllConnections(r) ==
  /\ req[r].pc = "readAll"
  /\ LET none == noActiveResult(
                   getProviderConnections(store, req[r].provider, FALSE), now)
     IN  req' = [req EXCEPT ![r].pc = "done",
                    ![r].credentials = none,
                    ![r].response = unavailableAnswer(req[r], none)]
  /\ Release(r)
  /\ UNCHANGED <<now, store, settings, selectionMutex, nextPromise, lastEntered,
                 rlCommits, everCleared, failures, served, cls,
                 handlerVars, executorVars>>

\* auth.js 80-126: the settings arrive, apply the strategy
GetSettings(r) ==
  /\ req[r].pc = "settings"
  /\ LET available == availableConnections(req[r].connections,
                                           req[r].excludeConnectionId, req[r].selNow)
         rr == roundRobinChoice(available, StickyLimitOf(settings), now)
     IN  IF StrategyOf(settings) = "round-robin"
           THEN /\ req' = [req EXCEPT ![r].pc = "write",
                              ![r].connections = <<>>,
                              ![r].credentials =
                                 [NoCredentials EXCEPT !.connection = rr.connection],
                              ![r].patch = rr.patch]
                /\ UNCHANGED resolved
           ELSE /\ req' = [req EXCEPT ![r].pc = "got",
                              ![r].connections = <<>>,
                              ![r].credentials =
                                 connectionResult(fillFirstChoice(available))]
                /\ Release(r)
  /\ UNCHANGED <<now, store, settings, selectionMutex, nextPromise, lastEntered,
                 rlCommits, everCleared, failures, served, cls,
                 handlerVars, executorVars>>

\* auth.js 103-106 / 119-122: the store commits lastUsedAt, consecutiveUseCount
WriteCommit(r) ==
  /\ req[r].pc = "write"
  /\ store' = updateProviderConnection(store, req[r].credentials.connection.id,
                                       req[r].patch)
  /\ req' = [req EXCEPT ![r].pc = "written", ![r].patch = NoPatch]
  /\ UNCHANGED <<now, settings, selectionMutex, resolved, nextPromise,
                 lastEntered, rlCommits, everCleared, failures, served, cls,
                 handlerVars, executorVars>>

\* auth.js 128-143: the write has returned; return the snapshot and release
WriteReturn(r) ==
  /\ req[r].pc = "written"
  /\ req' = [req EXCEPT ![r].pc = "got",
                ![r].credentials = connectionResult(req[r].credentials.connection)]
  /\ Release(r)
  /\ UNCHANGED <<now, store, settings, selectionMutex, nextPromise, lastEntered,
                 rlCommits, everCleared, failures, served, cls,
                 handlerVars, executorVars>>

\* chat.js 143-148, auth.js 182-188: the upstream call succeeded;
\* clearAccountError looks at the snapshot taken at selection
RequestSuccess(r) ==
  /\ req[r].pc = "got"
  /\ IF hasError(req[r].credentials.connection)
       THEN req' = [req EXCEPT ![r].pc = "clearing"]
       ELSE req' = [req EXCEPT ![r].pc = "done",
                               ![r].response = [status |-> 200, kind |-> "success"]]
  /\ UNCHANGED <<now, store, settings, selectionMutex, resolved, nextPromise,
                 lastEntered, rlCommits, everCleared, failures, served, cls,
                 handlerVars, executorVars>>

\* auth.js 190-197: the store commits the cleared error state
ClearCommit(r) ==
  /\ req[r].pc = "clearing"
  /\ store' = updateProviderConnection(store, req[r].credentials.connection.id,
                                       clearPatch)
  /\ req' = [req EXCEPT ![r].pc = "done",
                        ![r].response = [status |-> 200, kind |-> "success"]]
  /\ rlCommits' = [rlCommits EXCEPT ![req[r].credentials.connection.id] = 0]
  /\ everCleared' = everCleared \cup {req[r].credentials.connection.id}
  /\ UNCHANGED <<now, settings, selectionMutex, resolved, nextPromise,
                 lastEntered, failures, served, cls,
                 handlerVars, executorVars>>

\* chat.js 148-151, auth.js 151-170: the upstream call failed with
\* (status, error); markAccountUnavailable reads the level, classifies and
\* builds the patch
FailedAttempt(r, f) ==
  /\ req[r].pc = "got"
  /\ LET connections == getProviderConnections(store, req[r].provider, FALSE)
         backoffLevel == readBackoffLevel(connections, req[r].credentials.connection.id)
         marked == markAccountUnavailable(f.status, f.error, backoffLevel, now)
     IN  IF ~marked.shouldFallback
           THEN req' = [req EXCEPT ![r].pc = "done",
                           ![r].result = f,
                           ![r].attempted = @ \cup {req[r].credentials.connection.id},
                           ![r].response = [status |-> f.status, kind |-> "upstream"]]
           ELSE req' = [req EXCEPT ![r].pc = "markWrite",
                           ![r].result = f,
                           ![r].attempted = @ \cup {req[r].credentials.connection.id},
                           ![r].patch = marked.patch]
  /\ UNCHANGED <<now, store, settings, selectionMutex, resolved, nextPromise,
                 lastEntered, rlCommits, everCleared, served, cls,
                 handlerVars, executorVars>>

\* one of a bounded number of upstream failures
RequestFailure(r, f) ==
  /\ failures < MaxFailures
  /\ failures' = failures + 1
  /\ FailedAttempt(r, f)

\* is the failure one the classifier answers with exponential backoff?
IsRateLimitFailure(f) ==
  checkFallbackError(f.status, f.error, 0).newBackoffLevel # Undefined

\* auth.js 163-175, chat.js 153-158: the store commits the cooldown; the
\* request excludes the connection and goes round the loop
MarkCommit(r) ==
  /\ req[r].pc = "markWrite"
  /\ LET id == req[r].credentials.connection.id
     IN  /\ store' = updateProviderConnection(store, id, req[r].patch)
         /\ req' = [q \in Reqs |->
               IF q = r
                 THEN [req[r] EXCEPT !.pc = "select",
                                     !.excludeConnectionId = id,
                                     !.lastError = req[r].result.error,
                                     !.lastStatus = req[r].result.status,
                                     !.credentials = NoCredentials,
                                     !.patch = NoPatch,
                                     !.result = NoResult,
                                     !.raced = FALSE]
               ELSE IF \/ /\ req[q].pc \in {"write", "written", "got"}
                          /\ req[q].credentials.connection.id = id
                       \/ /\ req[q].pc = "settings"
                          /\ \E i \in 1..Len(req[q].connections) :
                                req[q].connections[i].id = id
                 THEN [req[q] EXCEPT !.raced = TRUE]
               ELSE req[q]]
         /\ rlCommits' = [rlCommits EXCEPT ![id] =
                            IF IsRateLimitFailure(req[r].result) THEN @ + 1 ELSE @]
  /\ UNCHANGED <<now, settings, selectionMutex, resolved, nextPromise,
                 lastEntered, everCleared, failures, served, cls,
                 handlerVars, executorVars>>

Next ==
  \/ Tick
  \/ \E r \in Reqs, p \in Providers : StartRequest(r, p)
  \/ \E r \in Reqs : RetrySelect(r)
  \/ \E r \in Reqs : ReadConnections(r)
  \/ \E r \in Reqs : ReadAllConnections(r)
  \/ \E r \in Reqs : GetSettings(r)
  \/ \E r \in Reqs : WriteCommit(r)
  \/ \E r \in Reqs : WriteReturn(r)
  \/ \E r \in Reqs : RequestSuccess(r)
  \/ \E r \in Reqs : ClearCommit(r)
  \/ \E r \in Reqs, f \in Failures : RequestFailure(r, f)
  \/ \E r \in Reqs : MarkCommit(r)

Spec == Init /\ [][Next]_vars

\* ------------------------------------------------------------------------
\* Requests whose upstream calls all fail, while no stored cooldown runs out
\* ------------------------------------------------------------------------
\* the clock goes on as long as every cooldown, stored or on its way to the
\* store, stays ahead
TickWithinCooldowns ==
  /\ \A id \in ConnIds :
       store[id].rateLimitedUntil # Null =>
         isAccountUnavailable(store[id].rateLimitedUntil, now + 1)
  /\ \A r \in Reqs :
       req[r].pc = "markWrite" =>
         isAccountUnavailable(req[r].patch.rateLimitedUntil, now + 1)
  /\ Tick

\* chat.js 130-151: the upstream call of the request fails
UpstreamFails(r, f) ==
  /\ FailedAttempt(r, f)
  /\ UNCHANGED failures

NextAllFail ==
  \/ TickWithinCooldowns
  \/ \E r \in Reqs, p \in Providers : StartRequest(r, p)
  \/ \E r \in Reqs : RetrySelect(r)
  \/ \E r \in Reqs : ReadConnections(r)
  \/ \E r \in Reqs : ReadAllConnections(r)
  \/ \E r \in Reqs : GetSettings(r)
  \/ \E r \in Reqs : WriteCommit(r)
  \/ \E r \in Reqs : WriteReturn(r)
  \/ \E r \in Reqs, f \in Failures : UpstreamFails(r, f)
  \/ \E r \in Reqs : MarkCommit(r)

SpecAllFail == Init /\ [][NextAllFail]_vars

\* ------------------------------------------------------------------------
\* Selections whose store calls may throw
\* ------------------------------------------------------------------------
\* mutant: the mutex is released on the return paths only
finallyRelease_NotOnThrow(r) == UNCHANGED resolved

\* auth.js 141-143: the finally block runs when the try block throws
finallyRelease(r) == Release(r)

\* auth.js 23, 28, 80, 103, 119: getProviderConnections, getSettings or
\* updateProviderConnection rejects inside the try block; the call of
\* getProviderCredentials rejects, and handleSingleModelChat with it
StoreThrows(r) ==
  /\ \/ req[r].pc = "await" /\ MutexFree(r)
     \/ req[r].pc \in {"readAll", "settings", "write"}
  /\ req' = [req EXCEPT ![r].pc = "done",
                        ![r].connections = <<>>,
                        ![r].credentials = NoCredentials,
                        ![r].patch = NoPatch,
                        ![r].response = [status |-> Null, kind |-> "exception"]]
  /\ finallyRelease(r)
  /\ UNCHANGED <<now, store, settings, selectionMutex, nextPromise, lastEntered,
                 rlCommits, everCleared, failures, served, cls,
                 handlerVars, executorVars>>

\* the steps of getProviderCredentials of a request: each store call
\* returns or throws
SelectionOf(r) ==
  \/ ReadConnections(r)
  \/ ReadAllConnections(r)
  \/ GetSettings(r)
  \/ WriteCommit(r)
  \/ WriteReturn(r)
  \/ StoreThrows(r)

NextMutex ==
  \/ Tick
  \/ \E r \in Reqs, p \in Providers : StartRequest(r, p)
  \/ \E r \in Reqs : SelectionOf(r)

\* store calls terminate: a selection that can take a step takes one
SpecMutex ==
  Init /\ [][NextMutex]_vars /\ \A r \in Reqs : WF_vars(SelectionOf(r))

\* ------------------------------------------------------------------------
\* Serial requests under round-robin: one caller, one request after another
\* ------------------------------------------------------------------------
SerialReq == "r1"

RoundRobinSettings == [fallbackStrategy |-> "round-robin", stickyRoundRobinLimit |-> 2]

InitSerial ==
  /\ now = 1
  /\ store = InitStore
  /\ settings = RoundRobinSettings
  /\ selectionMutex = 0
  /\ resolved = {0}
  /\ nextPromise = 1
  /\ req = [r \in Reqs |-> IdleRequest]
  /\ lastEntered = 0
  /\ rlCommits = [id \in ConnIds |-> 0]
  /\ everCleared = {}
  /\ failures = 0
  /\ served = <<>>
  /\ cls = InitCls
  /\ InitHandlers

SerialTick ==
  /\ now < MaxSerialTime
  /\ now' = now + 1
  /\ UNCHANGED <<store, settings, selectionMutex, resolved, nextPromise, req,
                 lastEntered, rlCommits, everCleared, failures, served, cls,
                 handlerVars, executorVars>>

\* the request has been answered; the caller records the connection and the
\* instant of its selection and is ready for the next request
SerialDone ==
  /\ req[SerialReq].pc = "done"
  /\ Len(served) < MaxSerial
  /\ served' = Append(served, [id |-> req[SerialReq].credentials.connection.id,
                               at |-> store[req[SerialReq].credentials.connection.id].lastUsedAt])
  /\ req' = [req EXCEPT ![SerialReq] = IdleRequest]
  /\ UNCHANGED <<now, store, settings, selectionMutex, resolved, nextPromise,
                 lastEntered, rlCommits, everCleared, failures, cls,
                 handlerVars, executorVars>>

NextSerial ==
  \/ SerialTick
  \/ (Len(served) < MaxSerial /\ StartRequest(SerialReq, "p1"))
  \/ ReadConnections(SerialReq)
  \/ GetSettings(SerialReq)
  \/ WriteCommit(SerialReq)
  \/ WriteReturn(SerialReq)
  \/ RequestSuccess(SerialReq)
  \/ SerialDone

SpecSerial == InitSerial /\ [][NextSerial]_vars

\* the same caller on a store in which B may be in a cooldown that an
\* earlier 401 has left behind
CoolingB ==
  updateProviderConnection(InitStore, "B", markPatch(401, NullText, 0, 1))

InitSticky ==
  /\ now = 1
  /\ store \in {InitStore, CoolingB}
  /\ settings = RoundRobinSettings
  /\ selectionMutex = 0
  /\ resolved = {0}
  /\ nextPromise = 1
  /\ req = [r \in Reqs |-> IdleRequest]
  /\ lastEntered = 0
  /\ rlCommits = [id \in ConnIds |-> 0]
  /\ everCleared = {}
  /\ failures = 0
  /\ served = <<>>
  /\ cls = InitCls
  /\ InitHandlers

\* the serial caller, and clearAccountError when the connection that served
\* it had come out of its cooldown
NextSticky ==
  \/ NextSerial
  \/ ClearCommit(SerialReq)

SpecSticky == InitSticky /\ [][NextSticky]_vars

\* ------------------------------------------------------------------------
\* The classifier applied to a stream of failures of one connection
\* ------------------------------------------------------------------------
Statuses == {400, 401, 402, 403, 404, 406, 408, 429, 500, 502, 503, 504, 418, 529}

Texts ==
  {NullText, <<>>, TxtRateLimit, TxtTooMany, TxtQuota, TxtCapacity,
   TxtOverloaded, TxtNoCreds, TxtNotAllowed, TxtNoCredsRate, TxtRateNotAllowed,
   TxtUnauthorized, TxtRateSplit}

InitClassify ==
  /\ now = 1
  /\ store = InitStore
  /\ settings = RoundRobinSettings
  /\ selectionMutex = 0
  /\ resolved = {0}
  /\ nextPromise = 1
  /\ req = [r \in Reqs |-> IdleRequest]
  /\ lastEntered = 0
  /\ rlCommits = [id \in ConnIds |-> 0]
  /\ everCleared = {}
  /\ failures = 0
  /\ served = <<>>
  /\ cls = InitCls
  /\ InitHandlers

\* a failure (status, errorText) of the connection: markAccountUnavailable
\* classifies it at the stored level and stores newBackoffLevel ?? backoffLevel
Classify(status, errorText) ==
  /\ LET out == checkFallbackError(status, errorText, cls.stored)
     IN  cls' = [status |-> status, errorText |-> errorText,
                 backoffLevel |-> cls.stored, out |-> out,
                 stored |-> Coalesce(out.newBackoffLevel, cls.stored)]
  /\ UNCHANGED <<now, store, settings, selectionMutex, resolved, nextPromise,
                 req, lastEntered, rlCommits, everCleared, failures, served,
                 handlerVars, executorVars>>

\* a success of the connection: clearAccountError stores backoffLevel 0
ClassifyReset ==
  /\ cls.stored # 0
  /\ cls' = [InitCls EXCEPT !.stored = clearPatch.backoffLevel]
  /\ UNCHANGED <<now, store, settings, selectionMutex, resolved, nextPromise,
                 req, lastEntered, rlCommits, everCleared, failures, served,
                 handlerVars, executorVars>>

NextClassify ==
  \/ \E status \in Statuses, errorText \in Texts : Classify(status, errorText)
  \/ ClassifyReset

SpecClassify == InitClassify /\ [][NextClassify]_vars

\* ------------------------------------------------------------------------
\* A request that meets a provider whose connections are in cooldown, with
\* the clock in milliseconds: selection (auth.js 14-78), the response
\* (chat.js 104-118, error.js 157-170) and the time that passes in between
\* ------------------------------------------------------------------------
\* Date.now() when the request arrives
Epoch == 100000

\* what is left of a cooldown when the request arrives (negative: expired)
CooldownsMs == {-1000, 500, 1000, 30000, 90000, 3661000}

\* the status an earlier failure stored with the cooldown; none when the
\* cooldown was written without one (scenario S4 of the specification)
ErrorCodes == {Null, 429, 401}

\* the clock steps of this specification
ElapseMs == {1, 999, 1000}

\* the cooldown states a connection can be in when the request arrives
CoolingStates ==
  {[until |-> Null, code |-> Null]} \cup
  {[until |-> Epoch + d, code |-> e] : d \in CooldownsMs, e \in ErrorCodes}

\* the connection as an earlier markAccountUnavailable (or another writer of
\* the store) left it
Cooling(connection, k) ==
  IF k.until = Null THEN connection
  ELSE [connection EXCEPT
          !.rateLimitedUntil = k.until,
          !.testStatus = "unavailable",
          !.errorCode = k.code,
          !.lastError = IF k.code = 429 THEN TxtRateLimit
                        ELSE IF k.code = Null THEN NullText
                        ELSE ProviderErrorText,
          !.lastErrorAt = Epoch - 5000,
          !.backoffLevel = IF k.code = 429 THEN 1 ELSE 0]

InitUnavailable ==
  /\ now = Epoch
  /\ \E a \in CoolingStates, b \in CoolingStates :
       store = [id \in ConnIds |->
                  IF id = "A" THEN Cooling(InitStore["A"], a)
                              ELSE Cooling(InitStore["B"], b)]
  /\ settings = [fallbackStrategy |-> "fill-first", stickyRoundRobinLimit |-> 2]
  /\ selectionMutex = 0
  /\ resolved = {0}
  /\ nextPromise = 1
  /\ req = [r \in Reqs |-> IdleRequest]
  /\ lastEntered = 0
  /\ rlCommits = [id \in ConnIds |-> 0]
  /\ everCleared = {}
  /\ failures = 0
  /\ served = <<>>
  /\ cls = InitCls
  /\ InitExecutors
  /\ una \in {[IdleUna EXCEPT !.pc = "start", !.provider = p] : p \in Providers}
  /\ chat = IdleChat
  /\ refresh = IdleRefresh

\* the clock moves on while the request waits for the store or is resumed
UnaElapse(d) ==
  /\ una.pc \in {"start", "selected"}
  /\ una.elapsed < MaxElapse
  /\ now' = now + d
  /\ una' = [una EXCEPT !.elapsed = @ + 1]
  /\ UNCHANGED <<store, settings, selectionMutex, resolved, nextPromise, req,
                 lastEntered, rlCommits, everCleared, failures, served, cls,
                 chat, refresh,
                 executorVars>>

\* auth.js 72-76: the sentinel carries the hint formatted at selection
withRetryAfterHuman(credentials, dateNow) ==
  IF credentials.kind # "allRateLimited" THEN credentials
  ELSE [f \in DOMAIN credentials \cup {"retryAfterHuman"} |->
          IF f = "retryAfterHuman"
            THEN formatRetryAfter(credentials.retryAfter, dateNow)
            ELSE credentials[f]]

\* auth.js 14-143 for the first iteration of the account loop (nothing
\* excluded, fill-first, no other call in the mutex chain)
UnaSelect ==
  /\ una.pc = "start"
  /\ selectionMutex \in resolved
  /\ selectionMutex' = nextPromise
  /\ nextPromise' = nextPromise + 1
  /\ resolved' = resolved \cup {nextPromise}
  /\ lastEntered' = nextPromise
  /\ LET connections == getProviderConnections(store, una.provider, TRUE)
         available == availableConnections(connections, NoId, now)
         credentials ==
           IF Len(connections) = 0
             THEN noActiveResult(
                    getProviderConnections(store, una.provider, FALSE), now)
           ELSE IF Len(available) = 0
             THEN allRateLimitedResult(connections, now)
           ELSE connectionResult(fillFirstChoice(available))
     IN  una' = [una EXCEPT
                   !.pc = "selected",
                   !.credentials = withRetryAfterHuman(credentials, now),
                   !.allCooling = /\ Len(connections) > 0
                                  /\ \A i \in 1..Len(connections) :
                                       isAccountUnavailable(
                                         connections[i].rateLimitedUntil, now),
                   !.selectedAt = now]
  /\ UNCHANGED <<now, store, settings, req, rlCommits, everCleared, failures,
                 served, cls, chat, refresh,
                 executorVars>>

TxtUnavailable == <<"U", "n", "a", "v", "a", "i", "l", "a", "b", "l", "e">>

TxtNoCredentialsFor == <<"N", "o", " ", "c", "r", "e", "d", "e", "n", "t", "i", "a", "l", "s", " ", "f", "o", "r", " ", "p", "r", "o", "v", "i", "d", "e", "r", ":", " ">>

\* `${provider}` and `[${provider}/${model}] ` for the model "m"
ProviderText(provider) == IF provider = "p1" THEN <<"p", "1">> ELSE <<"p", "2">>

ModelPrefix(provider) == <<"[">> \o ProviderText(provider) \o <<"/", "m", "]", " ">>

\* chat.js 104-118 with lastError and lastStatus still null
UnaRespond ==
  /\ una.pc = "selected"
  /\ una.credentials.kind # "conn"
  /\ LET credentials == una.credentials
         errorMsg == IF TruthyText(credentials.lastError)
                       THEN credentials.lastError ELSE TxtUnavailable
     IN  una' = [una EXCEPT
           !.pc = "done",
           !.respondedAt = now,
           !.response =
              IF credentials.kind = "allRateLimited"
                THEN unavailableResponse(
                       unavailableStatus(Null, credentials),
                       ModelPrefix(una.provider) \o errorMsg,
                       credentials.retryAfter, credentials.retryAfterHuman, now)
                ELSE errorResponse(HTTP_STATUS.BAD_REQUEST,
                       TxtNoCredentialsFor \o ProviderText(una.provider))]
  /\ UNCHANGED <<now, store, settings, selectionMutex, resolved, nextPromise,
                 req, lastEntered, rlCommits, everCleared, failures, served,
                 cls, chat, refresh,
                 executorVars>>

\* chat.js 120-148: a connection was selected; the upstream call is made
\* and succeeds
UnaUpstream ==
  /\ una.pc = "selected"
  /\ una.credentials.kind = "conn"
  /\ una' = [una EXCEPT !.pc = "done", !.respondedAt = now,
                        !.upstreamCalls = @ + 1, !.response = okResponse]
  /\ UNCHANGED <<now, store, settings, selectionMutex, resolved, nextPromise,
                 req, lastEntered, rlCommits, everCleared, failures, served,
                 cls, chat, refresh,
                 executorVars>>

NextUnavailable ==
  \/ \E d \in ElapseMs : UnaElapse(d)
  \/ UnaSelect
  \/ UnaRespond
  \/ UnaUpstream

SpecUnavailable == InitUnavailable /\ [][NextUnavailable]_vars

\* ------------------------------------------------------------------------
\* The requests of Spec against a provider with a single active connection
\* ------------------------------------------------------------------------
\* provider p1 owns A; its second connection B is switched off
SingleAccountStore == [InitStore EXCEPT !["B"].isActive = FALSE]

InitSingleAccount ==
  /\ now = 1
  /\ store = SingleAccountStore
  /\ settings \in {[fallbackStrategy |-> s, stickyRoundRobinLimit |-> 2] :
                     s \in {"fill-first", "round-robin"}}
  /\ selectionMutex = 0
  /\ resolved = {0}
  /\ nextPromise = 1
  /\ req = [r \in Reqs |-> IdleRequest]
  /\ lastEntered = 0
  /\ rlCommits = [id \in ConnIds |-> 0]
  /\ everCleared = {}
  /\ failures = 0
  /\ served = <<>>
  /\ cls = InitCls
  /\ InitHandlers

SpecSingleAccount == InitSingleAccount /\ [][Next]_vars

\* ------------------------------------------------------------------------
\* handleChat (chat.js 15-72) and handleComboChat (combo.js): one request
\* from its body to its response; handleSingleModelChat is seen through the
\* responses it returns
\* ------------------------------------------------------------------------
TxtInvalidJson == <<"I", "n", "v", "a", "l", "i", "d", " ", "J", "S", "O", "N", " ", "b", "o", "d", "y">>

TxtMissingModel == <<"M", "i", "s", "s", "i", "n", "g", " ", "m", "o", "d", "e", "l">>

TxtInvalidModel == <<"I", "n", "v", "a", "l", "i", "d", " ", "m", "o", "d", "e", "l", " ", "f", "o", "r", "m", "a", "t">>

TxtAllUnavailable == <<"A", "l", "l", " ", "a", "c", "c", "o", "u", "n", "t", "s", " ", "u", "n", "a", "v", "a", "i", "l", "a", "b", "l", "e">>

TxtAllCombo == <<"A", "l", "l", " ", "c", "o", "m", "b", "o", " ", "m", "o", "d", "e", "l", "s", " ", "u", "n", "a", "v", "a", "i", "l", "a", "b", "l", "e">>

\* the name of a single model and the name of a combo
SingleModelName == <<"p", "1", "/", "m">>

ComboName == <<"f", "a", "s", "t">>

\* what the model field of an object body can hold
ModelValues ==
  {JsUndefined, JsNull, JsString(<<>>), JsString(SingleModelName),
   JsString(ComboName)}

\* the JSON values a body can parse to
Bodies ==
  {JsNull, [type |-> "number"], [type |-> "boolean"], [type |-> "array"],
   JsString(<<"h", "i">>)} \cup
  {[type |-> "object", model |-> m] : m \in ModelValues}

Requests ==
  {[parse |-> "throws", body |-> JsUndefined]} \cup
  {[parse |-> "ok", body |-> b] : b \in Bodies}

\* chat.js 36: body.model on a body that is not null; numbers, booleans,
\* strings and arrays have no such property
ModelOf(body) == IF body.type = "object" THEN body.model ELSE JsUndefined

\* chat.js 53: !modelStr
Truthy(v) == v.type = "string" /\ v.value # <<>>

\* the k-th model of the combo
ComboModelName(k) == SingleModelName \o DecimalString(k)

\* services/model.js: the models of a combo name, the empty list standing
\* for null
getComboModels(modelStr, n) ==
  IF modelStr = JsString(ComboName) THEN [k \in 1..n |-> ComboModelName(k)]
  ELSE <<>>

\* the responses handleSingleModelChat returns (chat.js 81, 110, 114, 117,
\* 148); the upstream response of line 161 needs shouldFallback = false
SingleModelResponses ==
  {okResponse,
   errorResponse(HTTP_STATUS.BAD_REQUEST, TxtInvalidModel),
   errorResponse(HTTP_STATUS.BAD_REQUEST, TxtNoCredentialsFor \o ProviderText("p1")),
   errorResponse(429, TxtRateLimit),
   errorResponse(HTTP_STATUS.SERVICE_UNAVAILABLE, TxtAllUnavailable)} \cup
  {unavailableResponse(st, ModelPrefix("p1") \o TxtRateLimit, now + d,
                       formatRetryAfter(now + d, now), now) :
     st \in {429, HTTP_STATUS.SERVICE_UNAVAILABLE}, d \in {30000, 90000}}

InitChat ==
  /\ now = Epoch
  /\ store = InitStore
  /\ settings = RoundRobinSettings
  /\ selectionMutex = 0
  /\ resolved = {0}
  /\ nextPromise = 1
  /\ req = [r \in Reqs |-> IdleRequest]
  /\ lastEntered = 0
  /\ rlCommits = [id \in ConnIds |-> 0]
  /\ everCleared = {}
  /\ failures = 0
  /\ served = <<>>
  /\ cls = InitCls
  /\ InitExecutors
  /\ una = IdleUna
  /\ chat \in {[IdleChat EXCEPT !.pc = "start", !.request = q, !.combos = n] :
                 q \in Requests, n \in 1..MaxModels}
  /\ refresh = IdleRefresh

\* chat.js 16-56: parse the body, read body.model, reject a missing model
ParseBody ==
  /\ chat.pc = "start"
  /\ chat' =
       IF chat.request.parse = "throws"
         THEN [chat EXCEPT !.pc = "done",
                 !.response = errorResponse(HTTP_STATUS.BAD_REQUEST, TxtInvalidJson)]
       ELSE IF chat.request.body = JsNull
         THEN [chat EXCEPT !.pc = "threw"]
       ELSE IF ~Truthy(ModelOf(chat.request.body))
         THEN [chat EXCEPT !.pc = "done",
                 !.modelStr = ModelOf(chat.request.body),
                 !.response = errorResponse(HTTP_STATUS.BAD_REQUEST, TxtMissingModel)]
       ELSE [chat EXCEPT !.pc = "lookup",
                         !.modelStr = ModelOf(chat.request.body)]
  /\ UNCHANGED <<now, store, settings, selectionMutex, resolved, nextPromise,
                 req, lastEntered, rlCommits, everCleared, failures, served,
                 cls, una, refresh,
                 executorVars>>

\* chat.js 58-71: look the model up among the combos
GetComboModels ==
  /\ chat.pc = "lookup"
  /\ LET comboModels == getComboModels(chat.modelStr, chat.combos)
     IN  chat' = [chat EXCEPT
                    !.pc = IF comboModels # <<>> THEN "combo" ELSE "single",
                    !.models = comboModels,
                    !.comboLookups = @ + 1]
  /\ UNCHANGED <<now, store, settings, selectionMutex, resolved, nextPromise,
                 req, lastEntered, rlCommits, everCleared, failures, served,
                 cls, una, refresh,
                 executorVars>>

\* chat.js 71: the request of a single model is handed to
\* handleSingleModelChat, whose response is the answer
SingleModel(result) ==
  /\ chat.pc = "single"
  /\ chat' = [chat EXCEPT !.pc = "done",
                          !.invoked = Append(@, chat.modelStr.value),
                          !.results = Append(@, result),
                          !.response = result]
  /\ UNCHANGED <<now, store, settings, selectionMutex, resolved, nextPromise,
                 req, lastEntered, rlCommits, everCleared, failures, served,
                 cls, una, refresh,
                 executorVars>>

\* mutant: no response counts as a success
ok_Never(result) == FALSE

\* Response.ok
ok(result) == result.status >= 200 /\ result.status <= 299

\* combo.js 219-228: the error text and the retryAfter of an error body
errorTextOf(errorBody) ==
  IF /\ "error" \in DOMAIN errorBody
     /\ "message" \in DOMAIN errorBody.error
     /\ errorBody.error.message # <<>>
    THEN errorBody.error.message
  ELSE IF "message" \in DOMAIN errorBody /\ errorBody.message # <<>>
    THEN errorBody.message
  ELSE <<>>

retryAfterOf(errorBody) ==
  IF "retryAfter" \in DOMAIN errorBody THEN errorBody.retryAfter ELSE Null

\* combo.js 207-252: one turn of the loop: handleSingleModel answers for the
\* next model of the list
ComboTry(result) ==
  /\ chat.pc = "combo"
  /\ chat.i < Len(chat.models)
  /\ LET modelStr == chat.models[chat.i + 1]
         errorText == errorTextOf(result.body)
         retryAfter == retryAfterOf(result.body)
         earliest == IF /\ retryAfter # Null
                        /\ \/ chat.earliestRetryAfter = Null
                           \/ retryAfter < chat.earliestRetryAfter
                       THEN retryAfter ELSE chat.earliestRetryAfter
         tried == [chat EXCEPT !.invoked = Append(@, modelStr),
                               !.results = Append(@, result)]
     IN  chat' =
           IF ok(result)
             THEN [tried EXCEPT !.pc = "done", !.response = result]
           ELSE IF ~checkFallbackError(result.status, errorText, 0).shouldFallback
             THEN [tried EXCEPT !.pc = "done", !.response = result,
                                !.earliestRetryAfter = earliest]
           ELSE [tried EXCEPT
                   !.i = @ + 1,
                   !.earliestRetryAfter = earliest,
                   !.lastError = IF errorText # <<>> THEN errorText
                                 ELSE DecimalString(result.status),
                   !.lastStatus = IF @ = Null THEN result.status ELSE @]
  /\ UNCHANGED <<now, store, settings, selectionMutex, resolved, nextPromise,
                 req, lastEntered, rlCommits, everCleared, failures, served,
                 cls, una, refresh,
                 executorVars>>

\* combo.js 254-268: every model of the list has failed
ComboAllFailed ==
  /\ chat.pc = "combo"
  /\ chat.i = Len(chat.models)
  /\ LET msg == IF TruthyText(chat.lastError) THEN chat.lastError ELSE TxtAllCombo
     IN  chat' = [chat EXCEPT
           !.pc = "done",
           !.response =
              IF chat.earliestRetryAfter # Null
                THEN unavailableResponse(406, msg, chat.earliestRetryAfter,
                       formatRetryAfter(chat.earliestRetryAfter, now), now)
                ELSE [status |-> 406,
                      body |-> [error |-> [message |-> msg]],
                      headers |-> [h \in {} |-> <<>>]]]
  /\ UNCHANGED <<now, store, settings, selectionMutex, resolved, nextPromise,
                 req, lastEntered, rlCommits, everCleared, failures, served,
                 cls, una, refresh,
                 executorVars>>

NextChat ==
  \/ ParseBody
  \/ GetComboModels
  \/ \E result \in SingleModelResponses : SingleModel(result)
  \/ \E result \in SingleModelResponses : ComboTry(result)
  \/ ComboAllFailed

SpecChat == InitChat /\ [][NextChat]_vars

\* ------------------------------------------------------------------------
\* Token refresh: BaseExecutor.needsRefresh and refreshWithRetry
\* (open-sse/services/tokenRefresh.js), for the credentials of one request
\* ------------------------------------------------------------------------
\* tokenRefresh.js 3-4
TOKEN_EXPIRY_BUFFER_MS == 5 * 60 * 1000

\* mutant: a token that expires exactly at the buffer counts as stale
needsRefresh_LessEq(credentials, dateNow) ==
  IF credentials.expiresAt = Null THEN FALSE
  ELSE credentials.expiresAt - dateNow <= 5 * 60 * 1000

\* BaseExecutor.needsRefresh (executors/base.js 68-72)
needsRefresh(credentials, dateNow) ==
  IF credentials.expiresAt = Null THEN FALSE
  ELSE credentials.expiresAt - dateNow < 5 * 60 * 1000

\* refreshWithRetry(refreshFn, maxRetries = 3, log = null)
DefaultMaxRetries == 3

\* mutant: the same delay before every retry
retryDelay_Constant(attempt) == 1000

\* tokenRefresh.js 629: const delay = attempt * 1000
retryDelay(attempt) == attempt * 1000

\* mutant: no catch around the call of refreshFn
tryAttempt_NoCatch(outcome) ==
  IF outcome = "throw" THEN "raise"
  ELSE IF outcome = "null" THEN "next"
  ELSE "return"

\* tokenRefresh.js 634-639: try { result = await refreshFn(); if (result)
\* return result } catch { log }
tryAttempt(outcome) ==
  IF outcome = "throw" THEN "next"
  ELSE IF outcome = "null" THEN "next"
  ELSE "return"

\* what a call of refreshFn can come to: null, an exception, new tokens
RefreshOutcomes == {"null", "throw", "token1", "token2"}

\* how long a call of refreshFn takes
CallMs == {0, 250}

\* what is left of the token's life when the request arrives (negative:
\* expired)
ExpiryOffsets == {-60000, 0, 120000, 299999, 300000, 300001, 600000}

InitRefresh ==
  /\ now = Epoch
  /\ store = InitStore
  /\ settings = RoundRobinSettings
  /\ selectionMutex = 0
  /\ resolved = {0}
  /\ nextPromise = 1
  /\ req = [r \in Reqs |-> IdleRequest]
  /\ lastEntered = 0
  /\ rlCommits = [id \in ConnIds |-> 0]
  /\ everCleared = {}
  /\ failures = 0
  /\ served = <<>>
  /\ cls = InitCls
  /\ InitExecutors
  /\ una = IdleUna
  /\ chat = IdleChat
  /\ refresh \in {[IdleRefresh EXCEPT !.pc = "check", !.expiresAt = e] :
                    e \in {Null} \cup {Epoch + d : d \in ExpiryOffsets}}

\* the executor asks needsRefresh and, for a stale token, starts
\* refreshWithRetry(refreshCredentials) with attempt = 0
TokenCheck ==
  /\ refresh.pc = "check"
  /\ LET stale == needsRefresh([expiresAt |-> refresh.expiresAt], now)
     IN  refresh' = [refresh EXCEPT !.pc = IF stale THEN "call" ELSE "done",
                                    !.checkedAt = now,
                                    !.stale = stale]
  /\ UNCHANGED <<now, store, settings, selectionMutex, resolved, nextPromise,
                 req, lastEntered, rlCommits, everCleared, failures, served,
                 cls, una, chat,
                 executorVars>>

\* tokenRefresh.js 627-643: refreshFn is called and comes to outcome after
\* d ms; a token is returned, otherwise the loop goes to the next attempt
\* or, after the last one, returns null
RefreshCall(outcome, d) ==
  /\ refresh.pc = "call"
  /\ now' = now + d
  /\ LET called == [refresh EXCEPT !.calls = @ + 1,
                                   !.outcomes = Append(@, outcome)]
         todo == tryAttempt(outcome)
     IN  refresh' =
           IF todo = "return"
             THEN [called EXCEPT !.pc = "done", !.result = outcome]
           ELSE IF todo = "raise"
             THEN [called EXCEPT !.pc = "threw"]
           ELSE IF refresh.attempt + 1 < DefaultMaxRetries
             THEN [called EXCEPT !.pc = "wait", !.attempt = @ + 1]
           ELSE [called EXCEPT !.pc = "done", !.attempt = @ + 1,
                               !.result = "null"]
  /\ UNCHANGED <<store, settings, selectionMutex, resolved, nextPromise,
                 req, lastEntered, rlCommits, everCleared, failures, served,
                 cls, una, chat,
                 executorVars>>

\* tokenRefresh.js 628-632: the timer of attempt * 1000 ms fires
RefreshWait ==
  /\ refresh.pc = "wait"
  /\ now' = now + retryDelay(refresh.attempt)
  /\ refresh' = [refresh EXCEPT !.pc = "call",
                                !.delays = Append(@, retryDelay(refresh.attempt))]
  /\ UNCHANGED <<store, settings, selectionMutex, resolved, nextPromise,
                 req, lastEntered, rlCommits, everCleared, failures, served,
                 cls, una, chat,
                 executorVars>>

NextRefresh ==
  \/ TokenCheck
  \/ \E outcome \in RefreshOutcomes, d \in CallMs : RefreshCall(outcome, d)
  \/ RefreshWait

SpecRefresh == InitRefresh /\ [][NextRefresh]_vars

\* ------------------------------------------------------------------------
\* The executors, the Cursor codec and clearAccountError are modelled on
\* their own: account selection and the handlers stay in their first state
\* ------------------------------------------------------------------------
IdleCore ==
  /\ now = Epoch
  /\ store = InitStore
  /\ settings = RoundRobinSettings
  /\ selectionMutex = 0
  /\ resolved = {0}
  /\ nextPromise = 1
  /\ req = [r \in Reqs |-> IdleRequest]
  /\ lastEntered = 0
  /\ rlCommits = [id \in ConnIds |-> 0]
  /\ everCleared = {}
  /\ failures = 0
  /\ served = <<>>
  /\ cls = InitCls
  /\ una = IdleUna
  /\ chat = IdleChat
  /\ refresh = IdleRefresh

\* ------------------------------------------------------------------------
\* BaseExecutor.execute (open-sse/executors/base.js): the loop over the
\* base URLs, one action per iteration (the fetch is the only await)
\* ------------------------------------------------------------------------
\* the k-th configured URL; 0 is config.baseUrl
Url(k) == [url |-> k]

NoUrl == [url |-> Undefined]

\* provider configurations: config.baseUrls with n entries, or only
\* config.baseUrl, or neither
ExecConfigs ==
  {[hasBaseUrls |-> TRUE, baseUrls |-> [k \in 1..n |-> Url(k)],
    baseUrl |-> NoUrl] : n \in 1..MaxUrls}
  \cup {[hasBaseUrls |-> FALSE, baseUrls |-> <<>>, baseUrl |-> u] :
          u \in {Url(0), NoUrl}}

getBaseUrls(config) ==
  IF config.hasBaseUrls THEN config.baseUrls
  ELSE IF config.baseUrl # NoUrl THEN <<config.baseUrl>> ELSE <<>>

getFallbackCount(config) ==
  IF Len(getBaseUrls(config)) # 0 THEN Len(getBaseUrls(config)) ELSE 1

\* urlIndex counts from 0 as in the code
buildUrl(config, urlIndex) ==
  LET baseUrls == getBaseUrls(config) IN
  IF urlIndex + 1 \in DOMAIN baseUrls THEN baseUrls[urlIndex + 1]
  ELSE IF 1 \in DOMAIN baseUrls THEN baseUrls[1]
  ELSE config.baseUrl

shouldRetry_Every429(config, status, urlIndex) ==
  status = HTTP_STATUS.RATE_LIMITED

shouldRetry(config, status, urlIndex) ==
  /\ status = HTTP_STATUS.RATE_LIMITED
  /\ urlIndex + 1 < getFallbackCount(config)

\* what one fetch ends with: a response with a status, or a thrown error
FetchResponse(status) ==
  [kind |-> "response", status |-> status, error |-> ""]

FetchError(error) == [kind |-> "error", status |-> Null, error |-> error]

TxtAllUrlsFailed == "All URLs failed with status"

FetchOutcomes ==
  {FetchResponse(status) : status \in {200, 400, 401, 429, 500}}
  \cup {FetchError(error) : error \in {"ECONNRESET", "ETIMEDOUT"}}

NoOutcome == [kind |-> "none", status |-> Null, error |-> ""]

\* execute is entered: fallbackCount is read, lastError = null, lastStatus = 0
InitExecute ==
  /\ IdleCore
  /\ exec \in {[pc |-> "loop", config |-> config,
                fallbackCount |-> getFallbackCount(config), urlIndex |-> 0,
                lastError |-> NoOutcome, lastStatus |-> 0,
                urls |-> <<>>, outcomes |-> <<>>, result |-> NoOutcome] :
                 config \in ExecConfigs}
  /\ cursor = IdleCursor
  /\ decode = IdleDecode
  /\ framing = IdleFraming
  /\ checksum = IdleChecksum
  /\ clear = IdleClear

\* leaving the loop body with continue: urlIndex++, and when the loop
\* condition fails the statement after the loop throws
Continue(e) ==
  IF e.urlIndex + 1 < e.fallbackCount
  THEN [e EXCEPT !.urlIndex = e.urlIndex + 1]
  ELSE [e EXCEPT !.urlIndex = e.urlIndex + 1, !.pc = "threw",
                 !.result = IF e.lastError # NoOutcome THEN e.lastError
                            ELSE FetchError(TxtAllUrlsFailed)]

\* one iteration of the loop: the fetch of buildUrl(urlIndex) ends with
\* outcome
Fetch(outcome) ==
  /\ exec.pc = "loop"
  /\ exec.urlIndex < exec.fallbackCount
  /\ LET tried == [exec EXCEPT
                     !.urls = Append(exec.urls,
                                     buildUrl(exec.config, exec.urlIndex)),
                     !.outcomes = Append(exec.outcomes, outcome)]
     IN exec' =
          IF outcome.kind = "response"
          THEN IF shouldRetry(exec.config, outcome.status, exec.urlIndex)
               THEN Continue([tried EXCEPT !.lastStatus = outcome.status])
               ELSE [tried EXCEPT !.pc = "returned", !.result = outcome]
          ELSE IF exec.urlIndex + 1 < exec.fallbackCount
               THEN Continue([tried EXCEPT !.lastError = outcome])
               ELSE [tried EXCEPT !.pc = "threw", !.lastError = outcome,
                                  !.result = outcome]
  /\ UNCHANGED <<coreVars, handlerVars, cursor, decode, framing, checksum,
                 clear>>

NextExecute == \E outcome \in FetchOutcomes : Fetch(outcome)

SpecExecute == InitExecute /\ [][NextExecute]_vars

\* ------------------------------------------------------------------------
\* CursorExecutor.execute under a cancellation signal (cursor.js 175-288)
\* and what handleSingleModelChat does with its result (chat.js 127-159)
\* ------------------------------------------------------------------------
TxtRequestAborted == <<"R", "e", "q", "u", "e", "s", "t", " ", "a", "b", "o", "r", "t", "e", "d">>

TxtAbortError == <<"T", "h", "i", "s", " ", "o", "p", "e", "r", "a", "t", "i", "o", "n", " ", "w", "a", "s", " ", "a", "b", "o", "r", "t", "e", "d">>

TxtUnknownError == <<"U", "n", "k", "n", "o", "w", "n", " ", "e", "r", "r", "o", "r">>

\* the connection in use as an earlier request can have left it: clean, or
\* marked unavailable with a cooldown that is over
PriorConnections ==
  {NewConnection("A", "p1", 1)}
  \cup {[NewConnection("A", "p1", 1) EXCEPT
           !.testStatus = "unavailable", !.lastError = TxtRateLimit,
           !.errorCode = 429, !.lastErrorAt = Epoch - 10,
           !.rateLimitedUntil = Epoch - 1, !.backoffLevel = level] :
          level \in 0..2}

Transports == {"http2", "fetch"}

\* the error a request rejects with when the signal aborts:
\* makeHttp2Request rejects with new Error("Request aborted"), fetch with
\* an AbortError
abortError(transport) ==
  IF transport = "http2" THEN TxtRequestAborted ELSE TxtAbortError

cursorResponse(status, type, message) ==
  [status |-> status, type |-> type, message |-> message]

NoCursorResponse == cursorResponse(Null, "", <<>>)

\* execute, the catch: every rejection becomes a 500 response
connectionErrorResponse(message) ==
  cursorResponse(HTTP_STATUS.SERVER_ERROR, "connection_error", message)

\* execute, response.status !== 200
upstreamErrorResponse(status, body) ==
  cursorResponse(status, "invalid_request_error",
                 <<"[">> \o DecimalString(status) \o <<"]", ":", " ">>
                   \o (IF body = <<>> THEN TxtUnknownError ELSE body))

\* execute, response.status === 200: the response of the transform, a 200
\* or the error response the decoder synthesised
transformedResponse(status) ==
  cursorResponse(status,
                 IF status = 200 THEN "chat.completion"
                 ELSE IF status = HTTP_STATUS.RATE_LIMITED
                      THEN "rate_limit_error" ELSE "api_error",
                 IF status = 200 THEN <<>> ELSE TxtUnknownError)

\* handleChatCore: success for an HTTP-OK response of the executor, else
\* the status and the message of the error response
chatCoreResult(response) ==
  IF response.status = 200
  THEN [success |-> TRUE, status |-> 200, error |-> NullText]
  ELSE [success |-> FALSE, status |-> response.status,
        error |-> response.message]

UpstreamAnswers ==
  {[status |-> 200, body |-> <<>>, transformed |-> t] :
     t \in {200, HTTP_STATUS.RATE_LIMITED, HTTP_STATUS.BAD_REQUEST}}
  \cup {[status |-> s, body |-> b, transformed |-> Null] :
          s \in {400, 401, 429, 500, 503}, b \in {<<>>, TxtRateLimit}}

\* a request has selected connection A and awaits the upstream call
InitCursor ==
  /\ now = Epoch
  /\ \E c \in PriorConnections :
       /\ store = [InitStore EXCEPT !["A"] = c]
       /\ \E transport \in Transports :
            cursor = [pc |-> "request", transport |-> transport,
                      credentials |-> c, aborted |-> FALSE,
                      response |-> NoCursorResponse,
                      result |-> chatCoreResult(transformedResponse(200)),
                      wrote |-> "none"]
  /\ settings = RoundRobinSettings
  /\ selectionMutex = 0
  /\ resolved = {0}
  /\ nextPromise = 1
  /\ req = [r \in Reqs |-> IdleRequest]
  /\ lastEntered = 0
  /\ rlCommits = [id \in ConnIds |-> 0]
  /\ everCleared = {}
  /\ failures = 0
  /\ served = <<>>
  /\ cls = InitCls
  /\ una = IdleUna
  /\ chat = IdleChat
  /\ refresh = IdleRefresh
  /\ exec = IdleExec
  /\ decode = IdleDecode
  /\ framing = IdleFraming
  /\ checksum = IdleChecksum
  /\ clear = IdleClear

cursorFrame ==
  <<now, settings, selectionMutex, resolved, nextPromise, req, lastEntered,
    rlCommits, everCleared, failures, served, cls, handlerVars, exec, decode,
    framing, checksum, clear>>

\* the client goes away while the upstream call is pending: the request
\* rejects, the catch of execute answers 500, handleChatCore returns
CursorAbort ==
  /\ cursor.pc = "request"
  /\ LET response ==
           connectionErrorResponse(abortError(cursor.transport))
     IN cursor' = [cursor EXCEPT !.pc = "returned", !.aborted = TRUE,
                                 !.response = response,
                                 !.result = chatCoreResult(response)]
  /\ UNCHANGED <<store, cursorFrame>>

\* the upstream call ends before any cancellation
CursorAnswer(answer) ==
  /\ cursor.pc = "request"
  /\ LET response ==
           IF answer.status # 200
           THEN upstreamErrorResponse(answer.status, answer.body)
           ELSE transformedResponse(answer.transformed)
     IN cursor' = [cursor EXCEPT !.pc = "returned", !.response = response,
                                 !.result = chatCoreResult(response)]
  /\ UNCHANGED <<store, cursorFrame>>

\* result.success: onRequestSuccess has run clearAccountError
CursorSuccess ==
  /\ cursor.pc = "returned"
  /\ cursor.result.success
  /\ store' = IF hasError(cursor.credentials)
              THEN updateProviderConnection(store, "A", clearPatch)
              ELSE store
  /\ cursor' = [cursor EXCEPT
                  !.pc = "done",
                  !.wrote = IF hasError(cursor.credentials) THEN "clear"
                            ELSE "none"]
  /\ UNCHANGED cursorFrame

\* !result.success: markAccountUnavailable(connectionId, status, error)
CursorFailure ==
  /\ cursor.pc = "returned"
  /\ ~cursor.result.success
  /\ LET connections == getProviderConnections(store, "p1", FALSE)
         backoffLevel == readBackoffLevel(connections, "A")
     IN store' = updateProviderConnection(store, "A",
                   markPatch(cursor.result.status, cursor.result.error,
                             backoffLevel, now))
  /\ cursor' = [cursor EXCEPT !.pc = "done", !.wrote = "mark"]
  /\ UNCHANGED cursorFrame

NextCursor ==
  \/ CursorAbort
  \/ \E answer \in UpstreamAnswers : CursorAnswer(answer)
  \/ CursorSuccess
  \/ CursorFailure

SpecCursor == InitCursor /\ [][NextCursor]_vars

\* ------------------------------------------------------------------------
\* Bytes, texts and 32-bit integers as the Cursor codec uses them
\* (open-sse/utils/cursorProtobuf.js, open-sse/executors/cursor.js).
\* A buffer is a sequence of bytes 0..255; offsets count from 0 as in the
\* code.
\* ------------------------------------------------------------------------
\* the printable ASCII characters, code 32 first (the grave accent, code
\* 96, by its code point)
Ascii ==
  <<" ", "!", "\"", "#", "$", "%", "&", "'", "(", ")", "*", "+", ",", "-",
    ".", "/", "0", "1", "2", "3", "4", "5", "6", "7", "8", "9", ":", ";",
    "<", "=", ">", "?", "@", "A", "B", "C", "D", "E", "F", "G", "H", "I",
    "J", "K", "L", "M", "N", "O", "P", "Q", "R", "S", "T", "U", "V", "W",
    "X", "Y", "Z", "[", "\\", "]", "^", "_", "U+60", "a", "b", "c", "d", "e",
    "f", "g", "h", "i", "j", "k", "l", "m", "n", "o", "p", "q", "r", "s",
    "t", "u", "v", "w", "x", "y", "z", "{", "|", "}", "~">>

ControlChar == "U+00"

ReplacementChar == "U+FFFD"

\* one byte of a UTF-8 text that has ASCII characters only; any other byte
\* decodes to the replacement character
Chr(b) ==
  IF b \in 32..126 THEN Ascii[b - 31]
  ELSE IF b < 128 THEN ControlChar ELSE ReplacementChar

Ord(c) == CHOOSE b \in 32..126 : Ascii[b - 31] = c

\* new TextEncoder().encode(text)
TextEncode(text) == [i \in 1..Len(text) |-> Ord(text[i])]

\* new TextDecoder().decode(bytes) and buffer.toString("utf-8")
TextDecode(bytes) == [i \in 1..Len(bytes) |-> Chr(bytes[i])]

\* text.startsWith(prefix)
startsWith(text, prefix) ==
  /\ Len(prefix) <= Len(text)
  /\ SubSeq(text, 1, Len(prefix)) = prefix

\* buffer.slice(start, end) and buffer.subarray(start, end), offsets from 0:
\* a negative offset counts from the end, both are clamped to the buffer
bufferSlice(buffer, start, end) ==
  LET len == Len(buffer)
      clamp(k) == IF k < 0 THEN (IF len + k < 0 THEN 0 ELSE len + k)
                  ELSE IF k > len THEN len ELSE k
  IN  SubSeq(buffer, clamp(start) + 1, clamp(end))

\* A signed 32-bit integer is an integer of the model. Its two's complement
\* bits are the 31 low bits, a natural number, and bit 31, the sign.
MaxInt32 == 2147483647

Low31(x) == IF x >= 0 THEN x ELSE (x + MaxInt32) + 1

Bit31(x) == x < 0

FromBits(low31, bit31) ==
  IF bit31 THEN (low31 - MaxInt32) - 1 ELSE low31

\* a | b on naturals
RECURSIVE BitOrNat(_, _)
BitOrNat(a, b) ==
  IF a = 0 THEN b
  ELSE IF b = 0 THEN a
  ELSE (IF a % 2 = 1 \/ b % 2 = 1 THEN 1 ELSE 0)
       + 2 * BitOrNat(a \div 2, b \div 2)

\* a | b, a << n and a >> n of JavaScript on signed 32-bit integers; the
\* shift count is taken modulo 32
BitOr(a, b) ==
  FromBits(BitOrNat(Low31(a), Low31(b)), Bit31(a) \/ Bit31(b))

ShiftLeft(a, n) ==
  LET k == n % 32 IN
  IF k = 0 THEN a
  ELSE IF k = 31 THEN FromBits(0, a % 2 = 1)
  ELSE FromBits((Low31(a) % Pow2(31 - k)) * Pow2(k),
                (Low31(a) \div Pow2(31 - k)) % 2 = 1)

ShiftRight(a, n) ==
  LET k == n % 32 IN
  IF k = 31 THEN (IF a < 0 THEN -1 ELSE 0) ELSE a \div Pow2(k)

\* an unsigned 32-bit integer: bit 31 and the 31 low bits
\* (the number is high * 2^31 + low)
Uint32(high, low) == [high |-> high, low |-> low]

\* buffer.readUInt32BE(offset)
readUInt32BE(buffer, offset) ==
  Uint32(buffer[offset + 1] \div 128,
         (buffer[offset + 1] % 128) * 16777216 + buffer[offset + 2] * 65536
           + buffer[offset + 3] * 256 + buffer[offset + 4])

\* k + u > n for an unsigned 32-bit u and integers k, n of the model
SumExceeds(k, u, n) == u.high = 1 \/ u.low > n - k

\* the n low bytes of x, least significant first
RECURSIVE LittleEndian(_, _)
LittleEndian(x, n) ==
  IF n = 0 THEN <<>> ELSE <<x % 256>> \o LittleEndian(x \div 256, n - 1)

\* the sum of bytes[from..to], by halves
RECURSIVE ByteSumOf(_, _, _)
ByteSumOf(bytes, from, to) ==
  IF from > to THEN 0
  ELSE IF from = to THEN bytes[from]
  ELSE ByteSumOf(bytes, from, (from + to) \div 2)
         + ByteSumOf(bytes, (from + to) \div 2 + 1, to)

ByteSum(bytes) == ByteSumOf(bytes, 1, Len(bytes))

\* ------------------------------------------------------------------------
\* zlib.gzipSync and zlib.gunzipSync. The library is not part of the
\* repository; it is modelled by a gzip member (RFC 1952) that holds the
\* data in one stored block, with the sum of the bytes in the place of the
\* CRC-32: ten header bytes, the block, the check value, the length.
\* ------------------------------------------------------------------------
GzipHeader == <<31, 139, 8, 0, 0, 0, 0, 0, 0, 3>>

gzipSync(data) ==
  GzipHeader
    \o <<1>> \o LittleEndian(Len(data), 2)
    \o LittleEndian(65535 - Len(data), 2)
    \o data
    \o LittleEndian(ByteSum(data), 4) \o LittleEndian(Len(data), 4)

\* gunzipSync throws on anything that is not a gzip member
IsGzip(payload) ==
  /\ Len(payload) >= 23
  /\ SubSeq(payload, 1, 10) = GzipHeader
  /\ payload[11] = 1
  /\ LET len == payload[12] + 256 * payload[13]
     IN /\ Len(payload) = 23 + len
        /\ SubSeq(payload, 14, 15) = LittleEndian(65535 - len, 2)
        /\ SubSeq(payload, 16 + len, 19 + len)
             = LittleEndian(ByteSum(SubSeq(payload, 16, 15 + len)), 4)
        /\ SubSeq(payload, 20 + len, 23 + len) = LittleEndian(len, 4)

gunzipSync(payload) ==
  IF IsGzip(payload)
  THEN [threw |-> FALSE,
        data |-> SubSeq(payload, 16, 15 + payload[12] + 256 * payload[13])]
  ELSE [threw |-> TRUE, data |-> <<>>]

\* ------------------------------------------------------------------------
\* The protobuf wire format (cursorProtobuf.js 24-75 and 353-430)
\* ------------------------------------------------------------------------
\* encodeVarint: value & 0x7F, value >>>= 7
RECURSIVE encodeVarint(_)
encodeVarint(value) ==
  IF value >= 128
  THEN <<(value % 128) + 128>> \o encodeVarint(value \div 128)
  ELSE <<value % 128>>

\* encodeField(fieldNum, 0, value)
encodeVarintField(fieldNum, value) ==
  encodeVarint(BitOr(ShiftLeft(fieldNum, 3), 0)) \o encodeVarint(value)

\* encodeField(fieldNum, 2, value) for a Uint8Array
encodeBytesField(fieldNum, dataBytes) ==
  encodeVarint(BitOr(ShiftLeft(fieldNum, 3), 2))
    \o encodeVarint(Len(dataBytes)) \o dataBytes

\* encodeField(fieldNum, 2, value) for a string
encodeStringField(fieldNum, text) ==
  encodeBytesField(fieldNum, TextEncode(text))

\* concatArrays
RECURSIVE concatArrays(_)
concatArrays(arrays) ==
  IF arrays = <<>> THEN <<>> ELSE arrays[1] \o concatArrays(Tail(arrays))

\* buffer[pos] & mask: a read outside the buffer gives undefined, and
\* undefined & mask is 0
ByteAt(buffer, pos) ==
  IF pos >= 0 /\ pos < Len(buffer) THEN buffer[pos + 1] ELSE 0

\* decodeVarint(buffer, offset): [value, pos]
RECURSIVE decodeVarintLoop(_, _, _, _)
decodeVarintLoop(buffer, pos, result, shift) ==
  IF pos < Len(buffer)
  THEN LET b == ByteAt(buffer, pos)
           r == BitOr(result, ShiftLeft(b % 128, shift))
       IN  IF b < 128 THEN [value |-> r, pos |-> pos + 1]
           ELSE decodeVarintLoop(buffer, pos + 1, r, shift + 7)
  ELSE [value |-> result, pos |-> pos]

decodeVarint(buffer, offset) == decodeVarintLoop(buffer, offset, 0, 0)

\* a decoded field: [fieldNum, wireType, value, pos] with fieldNum = tag >> 3
\* and wireType = tag & 0x07; a varint value is in number, a byte value in
\* value
field(tag, value, number, pos) ==
  [none |-> FALSE, fieldNum |-> ShiftRight(tag.value, 3),
   wireType |-> tag.value % 8, value |-> value, number |-> number,
   pos |-> pos]

\* decodeField, wire type 0: [value, pos] = decodeVarint(buffer, pos)
varintField(tag, v) == field(tag, <<>>, v.value, v.pos)

\* decodeField, wire type 2: the length varint, then the slice
lenDelimField(buffer, tag, length) ==
  field(tag, bufferSlice(buffer, length.pos, length.pos + length.value), 0,
        length.pos + length.value)

\* decodeField behind the tag
decodeFieldValue(buffer, tag) ==
  IF tag.value % 8 = 0
  THEN varintField(tag, decodeVarint(buffer, tag.pos))
  ELSE IF tag.value % 8 = 2
  THEN lenDelimField(buffer, tag, decodeVarint(buffer, tag.pos))
  ELSE IF tag.value % 8 = 1
  THEN field(tag, bufferSlice(buffer, tag.pos, tag.pos + 8), 0, tag.pos + 8)
  ELSE IF tag.value % 8 = 5
  THEN field(tag, bufferSlice(buffer, tag.pos, tag.pos + 4), 0, tag.pos + 4)
  ELSE field(tag, <<>>, 0, tag.pos)

\* decodeField(buffer, offset)
decodeField(buffer, offset) ==
  IF offset >= Len(buffer)
  THEN [none |-> TRUE, fieldNum |-> 0, wireType |-> 0, value |-> <<>>,
        number |-> 0, pos |-> offset]
  ELSE decodeFieldValue(buffer, decodeVarint(buffer, offset))

\* decodeMessage(data): the decoded fields in the order of the data. The
\* loop goes on from the position decodeField returns; when it comes to a
\* position it has been at, it repeats from there for ever and the call
\* does not return (diverges).
RECURSIVE decodeMessageLoop(_, _, _, _)
RECURSIVE decodeMessageField(_, _, _, _, _)
decodeMessageField(data, pos, fields, visited, f) ==
  IF f.none THEN [diverges |-> FALSE, fields |-> fields]
  ELSE decodeMessageLoop(data, f.pos, Append(fields, f), visited \cup {pos})

decodeMessageLoop(data, pos, fields, visited) ==
  IF pos < Len(data)
  THEN IF pos \in visited THEN [diverges |-> TRUE, fields |-> fields]
       ELSE decodeMessageField(data, pos, fields, visited,
                               decodeField(data, pos))
  ELSE [diverges |-> FALSE, fields |-> fields]

decodeMessage(data) == decodeMessageLoop(data, 0, <<>>, {})

\* fields.get(fieldNum)
getField(fields, fieldNum) ==
  FilterSeq(fields, [i \in 1..Len(fields) |-> fields[i].fieldNum = fieldNum])

\* ------------------------------------------------------------------------
\* ConnectRPC frames and the response message (cursorProtobuf.js 305-341
\* and 438-522)
\* ------------------------------------------------------------------------
\* wrapConnectRPCFrame(payload, compress): [flags:1][length:4][payload]
wrapConnectRPCFrame(payload, compress) ==
  LET finalPayload == IF compress THEN gzipSync(payload) ELSE payload
      flags == IF compress THEN 1 ELSE 0
      length == Len(finalPayload)
  IN  <<flags, ShiftRight(length, 24) % 256, ShiftRight(length, 16) % 256,
        ShiftRight(length, 8) % 256, length % 256>> \o finalPayload

\* parseConnectRPCFrame(buffer): null, or the frame at the start of buffer
parseConnectRPCFrame(buffer) ==
  IF Len(buffer) < 5 THEN [null |-> TRUE]
  ELSE LET flags == buffer[1]
           length == BitOr(BitOr(BitOr(ShiftLeft(buffer[2], 24),
                                       ShiftLeft(buffer[3], 16)),
                                 ShiftLeft(buffer[4], 8)), buffer[5])
           raw == bufferSlice(buffer, 5, 5 + length)
           unzipped == gunzipSync(raw)
       IN  IF Len(buffer) < 5 + length THEN [null |-> TRUE]
           ELSE [null |-> FALSE, flags |-> flags, length |-> length,
                 payload |-> IF flags = 1 /\ ~unzipped.threw
                             THEN unzipped.data ELSE raw,
                 consumed |-> 5 + length]

\* extractTextFromResponse, the loop over the entries of field 1 of the
\* nested message: the first non-empty text, or no text
RECURSIVE firstText(_)
firstText(entries) ==
  IF entries = <<>> THEN NullText
  ELSE IF entries[1].wireType = 2 /\ TextDecode(entries[1].value) # <<>>
       THEN TextDecode(entries[1].value)
       ELSE firstText(Tail(entries))

\* extractTextFromResponse, the loop over the entries of field 2
RECURSIVE textOfField2(_)
RECURSIVE textOfNested(_, _, _)
textOfNested(entries, nested, text) ==
  IF nested.diverges THEN [diverges |-> TRUE, text |-> NullText]
  ELSE IF text # NullText THEN [diverges |-> FALSE, text |-> text]
  ELSE textOfField2(Tail(entries))

RECURSIVE textOfMessage(_, _)
textOfMessage(entries, nested) ==
  textOfNested(entries, nested, firstText(getField(nested.fields, 1)))

textOfField2(entries) ==
  IF entries = <<>> THEN [diverges |-> FALSE, text |-> NullText]
  ELSE IF entries[1].wireType # 2 THEN textOfField2(Tail(entries))
  ELSE textOfMessage(entries, decodeMessage(entries[1].value))

\* extractTextFromResponse behind decodeMessage: {text, error}
textResult(message, found) ==
  IF message.diverges \/ found.diverges
  THEN [diverges |-> TRUE, text |-> NullText, error |-> NullText]
  ELSE [diverges |-> FALSE, text |-> found.text, error |-> NullText]

textOfFields(message) ==
  textResult(message, textOfField2(getField(message.fields, 2)))

\* extractTextFromResponse(payload): {text, error}; field 1, the tool call,
\* is skipped. diverges: the call does not return.
extractTextFromResponse(payload) == textOfFields(decodeMessage(payload))

\* ------------------------------------------------------------------------
\* The Cursor response decoder (cursor.js 39-83 and the frame loops of
\* transformProtobufToJSON, 297-392, and transformProtobufToSSE, 439-588)
\* ------------------------------------------------------------------------
TxtErrorPrefix == <<"{", "\"", "e", "r", "r", "o", "r", "\"">>

TxtErrorKey == <<"\"", "e", "r", "r", "o", "r", "\"">>

TxtApiError == <<"A", "P", "I", " ", "E", "r", "r", "o", "r">>

TxtSlowDown == <<"S", "l", "o", "w", " ", "d", "o", "w", "n">>

\* error bodies the upstream sends as the payload of a frame
TxtErrorExhausted ==
  <<"{", "\"", "e", "r", "r", "o", "r", "\"", ":", "{", "\"", "c", "o",
      "d", "e", "\"", ":", "\"", "r", "e", "s", "o", "u", "r", "c", "e",
      "_", "e", "x", "h", "a", "u", "s", "t", "e", "d", "\"", ",", "\"",
      "m", "e", "s", "s", "a", "g", "e", "\"", ":", "\"", "S", "l", "o",
      "w", " ", "d", "o", "w", "n", "\"", "}", "}">>

TxtErrorUnavailable ==
  <<"{", "\"", "e", "r", "r", "o", "r", "\"", ":", "{", "\"", "c", "o",
      "d", "e", "\"", ":", "\"", "u", "n", "a", "v", "a", "i", "l", "a",
      "b", "l", "e", "\"", "}", "}">>

\* a text that starts like an error body and is not JSON
TxtErrorCut ==
  <<"{", "\"", "e", "r", "r", "o", "r", "\"", ":", "{", "\"", "c", "o",
      "d", "e", "\"">>

\* JSON.parse on the bodies above: it throws on a text that is not JSON.
\* Of the parsed object the fields createErrorResponse reads: error.code,
\* error.message, and title, detail and error of error.details[0].debug
JSONparse(text) ==
  IF text = TxtErrorExhausted
  THEN [threw |-> FALSE,
        error |-> [code |-> "resource_exhausted", message |-> TxtSlowDown,
                   title |-> NullText, detail |-> NullText,
                   debugError |-> NullText]]
  ELSE IF text = TxtErrorUnavailable
  THEN [threw |-> FALSE,
        error |-> [code |-> "unavailable", message |-> NullText,
                   title |-> NullText, detail |-> NullText,
                   debugError |-> NullText]]
  ELSE [threw |-> TRUE]

\* decompressPayload(payload, flags)
decompressPayload(payload, flags) ==
  IF /\ Len(payload) > 10
     /\ payload[1] = 123
     /\ payload[2] = 34
     /\ startsWith(TextDecode(payload), TxtErrorPrefix)
  THEN payload
  ELSE IF flags = 1 \/ flags = 2 \/ flags = 3
       THEN IF gunzipSync(payload).threw THEN payload
            ELSE gunzipSync(payload).data
       ELSE payload

\* a || b on texts
OrText(a, b) == IF TruthyText(a) THEN a ELSE b

NoErrorBody == [message |-> <<>>, type |-> "", code |-> <<>>]

\* a Response with a JSON error body
errorBodyResponse(status, message, type, code) ==
  [status |-> status, contentType |-> "application/json",
   error |-> [message |-> message, type |-> type, code |-> code],
   lines |-> <<>>, completion |-> <<>>]

\* createErrorResponse with every error taken for a rate limit
createErrorResponse_AlwaysRateLimit(jsonError) ==
  errorBodyResponse(
    HTTP_STATUS.RATE_LIMITED,
    OrText(jsonError.error.title,
           OrText(jsonError.error.detail,
                  OrText(jsonError.error.message, TxtApiError))),
    "rate_limit_error",
    OrText(jsonError.error.debugError, <<"u", "n", "k", "n", "o", "w", "n">>))

\* createErrorResponse(jsonError)
createErrorResponse(jsonError) ==
  LET isRateLimit == jsonError.error.code = "resource_exhausted"
  IN  errorBodyResponse(
        IF isRateLimit THEN HTTP_STATUS.RATE_LIMITED
        ELSE HTTP_STATUS.BAD_REQUEST,
        OrText(jsonError.error.title,
               OrText(jsonError.error.detail,
                      OrText(jsonError.error.message, TxtApiError))),
        IF isRateLimit THEN "rate_limit_error" ELSE "api_error",
        OrText(jsonError.error.debugError, <<"u", "n", "k", "n", "o", "w", "n">>))

\* the head of one iteration of a frame loop: break (fewer than 5 bytes
\* left, or fewer than length bytes of payload), or the frame at offset and
\* the offset behind it
readFrame(buffer, offset) ==
  IF offset + 5 > Len(buffer)
  THEN [break |-> TRUE, header |-> FALSE]
  ELSE LET flags == buffer[offset + 1]
           length == readUInt32BE(buffer, offset + 1)
       IN  IF SumExceeds(offset + 5, length, Len(buffer))
           THEN [break |-> TRUE, header |-> TRUE, flags |-> flags,
                 length |-> length]
           ELSE [break |-> FALSE, header |-> TRUE, flags |-> flags,
                 length |-> length,
                 payload |-> bufferSlice(buffer, offset + 5,
                                         offset + 5 + length.low),
                 offset |-> offset + 5 + length.low]

\* the body of one iteration behind the JSON error check: the result of
\* extractTextFromResponse; hangs: the call does not return
resultEvent(result) ==
  IF result.diverges THEN [kind |-> "hangs"]
  ELSE IF result.error # NullText
  THEN [kind |-> "return",
        response |-> errorBodyResponse(HTTP_STATUS.RATE_LIMITED,
                                       result.error, "rate_limit_error",
                                       <<"r", "a", "t", "e", "_", "l", "i", "m", "i", "t", "e", "d">>)]
  ELSE [kind |-> "result", result |-> result]

\* the JSON error check on the text of the payload
errorEvent(data, text, isError) ==
  IF isError
  THEN [kind |-> "return", response |-> createErrorResponse(JSONparse(text))]
  ELSE resultEvent(extractTextFromResponse(data))

textEvent(data, text) ==
  errorEvent(data, text,
             /\ startsWith(text, <<"{">>)
             /\ includes(text, TxtErrorKey)
             /\ ~JSONparse(text).threw)

\* the body of one iteration behind decompressPayload: the payload is an
\* error body (return createErrorResponse), or a message with its text
frameEvent(data) == textEvent(data, TextDecode(data))

\* the chunks of the SSE response: a delta has the fields named in fields
delta(fields, content, tool_calls) ==
  [fields |-> fields,
   role |-> IF "role" \in fields THEN "assistant" ELSE "",
   content |-> content, tool_calls |-> tool_calls]

chunk(d, finish_reason) ==
  [object |-> "chat.completion.chunk", delta |-> d,
   finish_reason |-> finish_reason]

\* data: [DONE]
DoneLine == [object |-> "[DONE]", delta |-> delta({}, <<>>, <<>>),
             finish_reason |-> ""]

NoDecodeResponse ==
  [status |-> Null, contentType |-> "", error |-> NoErrorBody,
   lines |-> <<>>, completion |-> <<>>]

\* result.toolCall: extractTextFromResponse returns no such field
HasToolCall(result) == "toolCall" \in DOMAIN result

\* a Map in insertion order: the entry of a key
mapHas(map, id) == \E i \in 1..Len(map) : map[i].id = id

mapIndex(map, id) == CHOOSE i \in 1..Len(map) : map[i].id = id

\* what a tool call is pushed as
toolCallOf(tc) ==
  [id |-> tc.id, type |-> tc.type,
   function |-> [name |-> tc.function.name,
                 arguments |-> tc.function.arguments]]

toolCallDelta(index, tc) ==
  delta({"tool_calls"}, <<>>,
        <<[index |-> index, id |-> tc.id, type |-> "function",
           function |-> [name |-> tc.function.name,
                         arguments |-> tc.function.arguments]]>>)

\* transformProtobufToJSON, if (result.toolCall)
jsonToolCall(d, tc) ==
  LET map == IF mapHas(d.toolCallsMap, tc.id)
             THEN [d.toolCallsMap EXCEPT
                     ![mapIndex(d.toolCallsMap, tc.id)].function.arguments =
                        @ \o tc.function.arguments,
                     ![mapIndex(d.toolCallsMap, tc.id)].isLast = tc.isLast]
             ELSE Append(d.toolCallsMap, tc)
  IN  [d EXCEPT !.toolCallsMap = map,
                !.toolCalls =
                   IF tc.isLast
                   THEN Append(@, toolCallOf(map[mapIndex(map, tc.id)]))
                   ELSE @]

\* mutant: the text of a frame replaces the content instead of extending it
jsonResult_LastTextOnly(d, result) ==
  LET d1 == IF HasToolCall(result) THEN jsonToolCall(d, result.toolCall)
            ELSE d
  IN  IF TruthyText(result.text)
      THEN [d1 EXCEPT !.totalContent = result.text]
      ELSE d1

\* transformProtobufToJSON, the rest of an iteration
jsonResult(d, result) ==
  LET d1 == IF HasToolCall(result) THEN jsonToolCall(d, result.toolCall)
            ELSE d
  IN  IF TruthyText(result.text)
      THEN [d1 EXCEPT !.totalContent = @ \o result.text]
      ELSE d1

\* transformProtobufToSSE, if (result.toolCall)
sseToolCall(d, tc) ==
  LET opened == IF Len(d.chunks) = 0
                THEN <<chunk(delta({"role", "content"}, <<>>, <<>>), "")>>
                ELSE d.chunks
  IN  IF mapHas(d.toolCallsMap, tc.id)
      THEN LET k == mapIndex(d.toolCallsMap, tc.id)
           IN  [d EXCEPT
                  !.toolCallsMap[k].function.arguments =
                     @ \o tc.function.arguments,
                  !.toolCallsMap[k].isLast = tc.isLast,
                  !.chunks =
                     IF tc.function.arguments # <<>>
                     THEN Append(opened,
                                 chunk(toolCallDelta(d.toolCallsMap[k].index,
                                                     tc), ""))
                     ELSE opened]
      ELSE LET toolCallIndex == Len(d.toolCalls)
               entry == [id |-> tc.id, type |-> tc.type,
                         function |-> tc.function, isLast |-> tc.isLast,
                         index |-> toolCallIndex]
           IN  [d EXCEPT
                  !.toolCalls = Append(@, entry),
                  !.toolCallsMap = Append(@, entry),
                  !.chunks = Append(opened,
                                    chunk(toolCallDelta(toolCallIndex, tc),
                                          ""))]

\* the rest of an iteration with the role in the delta of every text
sseResult_RoleInEveryText(d, result) ==
  LET d1 == IF HasToolCall(result) THEN sseToolCall(d, result.toolCall)
            ELSE d
  IN  IF TruthyText(result.text)
      THEN [d1 EXCEPT
              !.totalContent = @ \o result.text,
              !.chunks =
                 Append(@, chunk(delta({"role", "content"}, result.text,
                                       <<>>),
                                 ""))]
      ELSE d1

\* transformProtobufToSSE, the rest of an iteration
sseResult(d, result) ==
  LET d1 == IF HasToolCall(result) THEN sseToolCall(d, result.toolCall)
            ELSE d
  IN  IF TruthyText(result.text)
      THEN [d1 EXCEPT
              !.totalContent = @ \o result.text,
              !.chunks =
                 Append(@, chunk(IF Len(d1.chunks) = 0
                                    /\ Len(d1.toolCalls) = 0
                                 THEN delta({"role", "content"}, result.text,
                                            <<>>)
                                 ELSE delta({"content"}, result.text, <<>>),
                                 ""))]
      ELSE d1

\* transformProtobufToJSON behind the loop: the tool calls of the map that
\* are not in the array yet are pushed in the order of the map
RECURSIVE finalizeToolCalls(_, _)
finalizeToolCalls(toolCalls, map) ==
  IF map = <<>> THEN toolCalls
  ELSE IF \E i \in 1..Len(toolCalls) : toolCalls[i].id = map[1].id
       THEN finalizeToolCalls(toolCalls, Tail(map))
       ELSE finalizeToolCalls(Append(toolCalls, toolCallOf(map[1])),
                              Tail(map))

\* transformProtobufToJSON behind the loop: the chat.completion
completionResponse(d) ==
  LET toolCalls == finalizeToolCalls(d.toolCalls, d.toolCallsMap)
  IN  [status |-> 200, contentType |-> "application/json",
       error |-> NoErrorBody, lines |-> <<>>,
       completion |->
         [object |-> "chat.completion",
          message |-> [role |-> "assistant",
                       content |-> IF d.totalContent # <<>>
                                   THEN d.totalContent ELSE NullText,
                       tool_calls |-> toolCalls],
          finish_reason |-> IF Len(toolCalls) > 0 THEN "tool_calls"
                            ELSE "stop"]]

\* transformProtobufToSSE behind the loop: the chunks, the final chunk and
\* the last line
sseResponse(d) ==
  LET opened == IF Len(d.chunks) = 0 /\ Len(d.toolCalls) = 0
                THEN <<chunk(delta({"role", "content"}, <<>>, <<>>), "")>>
                ELSE d.chunks
  IN  [status |-> 200, contentType |-> "text/event-stream",
       error |-> NoErrorBody,
       lines |-> opened
                   \o <<chunk(delta({}, <<>>, <<>>),
                              IF Len(d.toolCalls) > 0 THEN "tool_calls"
                              ELSE "stop"),
                        DoneLine>>,
       completion |-> <<>>]

\* ------------------------------------------------------------------------
\* The frame streams the decoder is run on
\* ------------------------------------------------------------------------
\* StreamUnifiedChatResponseWithTools with field 2,
\* StreamUnifiedChatResponse{1: text}
textPayload(text) == encodeBytesField(2, encodeStringField(1, text))

\* StreamUnifiedChatResponseWithTools with field 1, the tool call: id,
\* function name, argument chunk and isLast
toolCallPayload(id, name, arguments, isLast) ==
  encodeBytesField(1, concatArrays(<<encodeStringField(3, id),
                                     encodeStringField(9, name),
                                     encodeStringField(10, arguments),
                                     encodeVarintField(11,
                                       IF isLast THEN 1 ELSE 0)>>))

\* a message whose field 1 has the length -6 (the varint FA FF FF FF 0F)
BackwardLengthPayload == <<10, 250, 255, 255, 255, 15>>

NoToolCall == [id |-> <<>>, arguments |-> <<>>, isLast |-> FALSE]

frame(flags, payload) ==
  [flags |-> flags, payload |-> payload, toolCall |-> NoToolCall]

toolCallFrame(id, name, arguments, isLast) ==
  [flags |-> 0, payload |-> toolCallPayload(id, name, arguments, isLast),
   toolCall |-> [id |-> id, arguments |-> arguments, isLast |-> isLast]]

TxtHello == <<"h", "e", "l", "l", "o">>

TxtWorld == <<" ", "w", "o", "r", "l", "d">>

Frames ==
  {frame(0, textPayload(TxtHello)),
   frame(1, gzipSync(textPayload(TxtWorld))),
   frame(2, gzipSync(textPayload(TxtWorld))),
   frame(3, gzipSync(textPayload(TxtHello))),
   frame(1, textPayload(TxtWorld)),
   frame(5, gzipSync(textPayload(TxtHello))),
   frame(0, <<>>),
   frame(0, TextEncode(TxtErrorExhausted)),
   frame(1, gzipSync(TextEncode(TxtErrorUnavailable))),
   frame(0, TextEncode(TxtErrorCut)),
   frame(0, BackwardLengthPayload),
   toolCallFrame(<<"T">>, <<"f">>, <<"{", "\"", "a", "\"">>, FALSE),
   toolCallFrame(<<"T">>, <<"f">>, <<":", "1", "}">>, TRUE)}

\* the bytes of a frame on the wire
frameBytes(f) ==
  <<f.flags, 0, 0, Len(f.payload) \div 256, Len(f.payload) % 256>>
    \o f.payload

\* what is left of a frame that was cut off: nothing, three bytes of the
\* header, the header and two of its nine bytes of payload, or the header
\* of a frame of 2^31 bytes
Tails == {<<>>, <<0, 0, 0>>, <<0, 0, 0, 0, 9, 18, 7>>, <<0, 128, 0, 0, 0>>}

FrameLists == UNION {[1..n -> Frames] : n \in 0..MaxFrames}

RECURSIVE streamBytes(_)
streamBytes(frames) ==
  IF frames = <<>> THEN <<>>
  ELSE frameBytes(frames[1]) \o streamBytes(Tail(frames))

DecodePaths == {"sse", "json", "parse"}

\* the locals of a transform when it is entered with the buffer
enterDecode(frames, tail, path) ==
  [pc |-> IF path = "parse" THEN "parse" ELSE "loop",
   path |-> path, frames |-> frames, tail |-> tail,
   buffer |-> streamBytes(frames) \o tail,
   offset |-> 0, frameCount |-> 0, payload |-> <<>>,
   totalContent |-> <<>>, toolCalls |-> <<>>, toolCallsMap |-> <<>>,
   chunks |-> <<>>, steps |-> <<>>,
   response |-> NoDecodeResponse,
   parsed |-> [null |-> TRUE]]

\* the upstream has answered 200 with the buffer, and the transform (or
\* parseConnectRPCFrame) is entered
InitDecode ==
  /\ IdleCore
  /\ exec = IdleExec
  /\ cursor = IdleCursor
  /\ \E frames \in FrameLists, tail \in Tails, path \in DecodePaths :
       decode = enterDecode(frames, tail, path)
  /\ framing = IdleFraming
  /\ checksum = IdleChecksum
  /\ clear = IdleClear

decodeFrame ==
  <<coreVars, handlerVars, exec, cursor, framing, checksum, clear>>

\* what one iteration of a frame loop did
step(offset, f, consumed, data) ==
  [offset |-> offset, break |-> f.break,
   flags |-> IF f.header THEN f.flags ELSE Null,
   length |-> IF f.header THEN f.length ELSE Uint32(0, 0),
   consumed |-> consumed, data |-> data]

\* one iteration of the frame loop of a transform, as far as
\* payload = decompressPayload(payload, flags)
frameStep(d, f) ==
  IF f.break
  THEN [d EXCEPT
          !.pc = "break",
          !.steps = Append(@, step(d.offset, f, 0, <<>>))]
  ELSE [d EXCEPT
          !.pc = "payload",
          !.offset = f.offset,
          !.frameCount = @ + 1,
          !.payload = decompressPayload(f.payload, f.flags),
          !.steps = Append(@, step(d.offset, f, f.offset - d.offset,
                                   decompressPayload(f.payload, f.flags)))]

\* the transform on the given path runs the head of an iteration
Frame(path) ==
  /\ decode.pc = "loop"
  /\ decode.path = path
  /\ decode.offset < Len(decode.buffer)
  /\ decode' = frameStep(decode, readFrame(decode.buffer, decode.offset))
  /\ UNCHANGED decodeFrame

\* the rest of an iteration on the event e of the payload: return the
\* error, hang, or extend the content and the chunks
eventStep(d, e) ==
  IF e.kind = "return"
  THEN [d EXCEPT !.pc = "done", !.response = e.response]
  ELSE IF e.kind = "hangs" THEN [d EXCEPT !.pc = "hung"]
  ELSE IF d.path = "sse" THEN sseResult([d EXCEPT !.pc = "loop"], e.result)
  ELSE jsonResult([d EXCEPT !.pc = "loop"], e.result)

\* the transform on the given path runs the rest of the iteration
Event(path) ==
  /\ decode.pc = "payload"
  /\ decode.path = path
  /\ decode' = eventStep(decode, frameEvent(decode.payload))
  /\ UNCHANGED decodeFrame

\* the loop is left: offset has reached the end, or break
loopLeft(d) ==
  \/ d.pc = "break"
  \/ d.pc = "loop" /\ d.offset >= Len(d.buffer)

LoopLeft(path) ==
  /\ decode.path = path
  /\ loopLeft(decode)

\* behind the loop: the response of the transform
finishStep(d) ==
  [d EXCEPT !.pc = "done",
            !.response = IF d.path = "sse" THEN sseResponse(d)
                         ELSE completionResponse(d)]

\* a transform from where it stands to its return; it stands for ever
\* where the decoder does not return
RECURSIVE transformFrom(_)
transformFrom(d) ==
  IF d.pc \in {"done", "hung"} THEN d
  ELSE IF d.pc = "payload"
    THEN transformFrom(eventStep(d, frameEvent(d.payload)))
  ELSE IF loopLeft(d) THEN finishStep(d)
  ELSE transformFrom(frameStep(d, readFrame(d.buffer, d.offset)))

transformProtobufToJSON(frames, tail) ==
  transformFrom(enterDecode(frames, tail, "json"))

transformProtobufToSSE(frames, tail) ==
  transformFrom(enterDecode(frames, tail, "sse"))

SseFrame == Frame("sse")

SseEvent == Event("sse")

SseFinish ==
  /\ LoopLeft("sse")
  /\ decode' = finishStep(decode)
  /\ UNCHANGED decodeFrame

JsonFrame == Frame("json")

JsonEvent == Event("json")

JsonFinish ==
  /\ LoopLeft("json")
  /\ decode' = finishStep(decode)
  /\ UNCHANGED decodeFrame

\* parseConnectRPCFrame(buffer)
ParseFrame ==
  /\ decode.pc = "parse"
  /\ decode' = [decode EXCEPT !.pc = "done",
                              !.parsed = parseConnectRPCFrame(decode.buffer)]
  /\ UNCHANGED decodeFrame

NextDecode ==
  \/ SseFrame
  \/ SseEvent
  \/ SseFinish
  \/ JsonFrame
  \/ JsonEvent
  \/ JsonFinish
  \/ ParseFrame

SpecDecode == InitDecode /\ [][NextDecode]_vars

\* ------------------------------------------------------------------------
\* The Cursor request body (cursorProtobuf.js 101-341): the request message
\* of a message list, framed by generateCursorBody, and the frame read back
\* by parseConnectRPCFrame
\* ------------------------------------------------------------------------
\* uuidv4(): the k-th identifier that is drawn
Uuid(k) ==
  <<"0", "0", "0", "0", "0", "0", "0", "0", "-", "0", "0", "0", "0", "-",
      "4", "0", "0", "0", "-", "8", "0", "0", "0", "-", "0", "0", "0", "0",
      "0", "0", "0", "0", "0", "0", "0">> \o <<Chr(48 + k)>>

\* chatModeEnum = null
NoEnum == -1

\* encodeMessage(content, role, messageId, chatModeEnum)
encodeMessage(content, role, messageId, chatModeEnum) ==
  concatArrays(<<encodeStringField(1, content),
                 encodeVarintField(2, role),
                 encodeStringField(13, messageId),
                 IF chatModeEnum # NoEnum
                 THEN encodeVarintField(47, chatModeEnum) ELSE <<>>>>)

\* encodeInstruction(instructionText)
encodeInstruction(instructionText) ==
  IF instructionText = <<>> THEN <<>>
  ELSE encodeStringField(1, instructionText)

\* encodeModel(modelName)
encodeModel(modelName) ==
  concatArrays(<<encodeStringField(1, modelName), encodeBytesField(4, <<>>)>>)

\* encodeCursorSetting()
encodeCursorSetting ==
  concatArrays(<<encodeStringField(1, <<"c", "u", "r", "s", "o", "r", "\\", "a", "i", "s", "e", "t", "t",
      "i", "n", "g", "s">>),
                 encodeBytesField(3, <<>>),
                 encodeBytesField(6, concatArrays(<<encodeBytesField(1, <<>>),
                                                    encodeBytesField(2, <<>>)>>)),
                 encodeVarintField(8, 1),
                 encodeVarintField(9, 1)>>)

\* encodeMetadata(): platform, architecture, version, working directory
\* and the time of the call
encodeMetadata ==
  concatArrays(<<encodeStringField(1, <<"l", "i", "n", "u", "x">>),
                 encodeStringField(2, <<"x", "6", "4">>),
                 encodeStringField(3, <<"v", "2", "0", ".", "0", ".", "0">>),
                 encodeStringField(4, <<"/">>),
                 encodeStringField(5, <<"2", "0", "2", "6", "-", "0", "1", "-", "0", "1", "T", "0", "0", ":",
      "0", "0", ":", "0", "0", ".", "0", "0", "0", "Z">>)>>)

\* encodeMessageId(messageId, role)
encodeMessageId(messageId, role) ==
  concatArrays(<<encodeStringField(1, messageId), encodeVarintField(3, role)>>)

\* encodeRequest, role = msg.role === "user" ? 1 : 2
roleOf(msg) == IF msg.role = "user" THEN 1 ELSE 2

\* encodeRequest, field 1: the messages, the k-th with the k-th identifier
RECURSIVE messageFields(_, _)
messageFields(messages, k) ==
  IF k > Len(messages) THEN <<>>
  ELSE encodeBytesField(1, encodeMessage(messages[k].content,
                                         roleOf(messages[k]), Uuid(k),
                                         IF roleOf(messages[k]) = 1 THEN 1
                                         ELSE NoEnum))
         \o messageFields(messages, k + 1)

\* encodeRequest, field 30: the message identifiers
RECURSIVE messageIdFields(_, _)
messageIdFields(messages, k) ==
  IF k > Len(messages) THEN <<>>
  ELSE encodeBytesField(30, encodeMessageId(Uuid(k), roleOf(messages[k])))
         \o messageIdFields(messages, k + 1)

\* encodeRequest(messages, modelName)
encodeRequest(messages, modelName) ==
  concatArrays(<<messageFields(messages, 1),
                 encodeVarintField(2, 1),
                 encodeBytesField(3, encodeInstruction(<<>>)),
                 encodeVarintField(4, 1),
                 IF modelName # <<>>
                 THEN encodeBytesField(5, encodeModel(modelName)) ELSE <<>>,
                 encodeStringField(8, <<>>),
                 encodeVarintField(13, 1),
                 encodeBytesField(15, encodeCursorSetting),
                 encodeVarintField(19, 1),
                 encodeStringField(23, Uuid(Len(messages) + 1)),
                 encodeBytesField(26, encodeMetadata),
                 encodeVarintField(27, 0),
                 messageIdFields(messages, 1),
                 encodeVarintField(35, 0),
                 encodeVarintField(38, 0),
                 encodeVarintField(46, 1),
                 encodeStringField(47, <<>>),
                 encodeVarintField(48, 0),
                 encodeVarintField(49, 0),
                 encodeVarintField(51, 0),
                 encodeVarintField(53, 1),
                 encodeStringField(54, <<"A", "s", "k">>)>>)

\* buildChatRequest(messages, modelName)
buildChatRequest(messages, modelName) ==
  encodeBytesField(1, encodeRequest(messages, modelName))

\* generateCursorBody that compresses above three messages only
generateCursorBody_AboveThree(messages, modelName) ==
  wrapConnectRPCFrame(buildChatRequest(messages, modelName),
                      Len(messages) > 3)

\* generateCursorBody(messages, modelName)
generateCursorBody(messages, modelName) ==
  wrapConnectRPCFrame(buildChatRequest(messages, modelName),
                      Len(messages) >= 3)

\* the messages of a request
FramingMessages ==
  [role : {"user", "assistant"}, content : {<<>>, <<"h", "i">>}]

MessageLists == UNION {[1..n -> FramingMessages] : n \in 0..MaxMessages}

ModelNames == {<<>>, <<"g", "p", "t", "-", "4", "o">>}

InitFraming ==
  /\ IdleCore
  /\ exec = IdleExec
  /\ cursor = IdleCursor
  /\ decode = IdleDecode
  /\ \E messages \in MessageLists, modelName \in ModelNames :
       framing = [pc |-> "start", messages |-> messages,
                  modelName |-> modelName, protobuf |-> <<>>,
                  body |-> <<>>, parsed |-> [null |-> TRUE]]
  /\ checksum = IdleChecksum
  /\ clear = IdleClear

framingFrame ==
  <<coreVars, handlerVars, exec, cursor, decode, checksum, clear>>

\* generateCursorBody(messages, modelName); protobuf keeps what
\* buildChatRequest gave
GenerateBody ==
  /\ framing.pc = "start"
  /\ framing' = [framing EXCEPT
                   !.pc = "body",
                   !.protobuf = buildChatRequest(framing.messages,
                                                 framing.modelName),
                   !.body = generateCursorBody(framing.messages,
                                               framing.modelName)]
  /\ UNCHANGED framingFrame

\* parseConnectRPCFrame(body)
ParseCursorBody ==
  /\ framing.pc = "body"
  /\ framing' = [framing EXCEPT
                   !.pc = "parsed",
                   !.parsed = parseConnectRPCFrame(framing.body)]
  /\ UNCHANGED framingFrame

NextFraming ==
  \/ GenerateBody
  \/ ParseCursorBody

SpecFraming == InitFraming /\ [][NextFraming]_vars

\* ------------------------------------------------------------------------
\* The Cursor checksum header (cursor.js 95-132, the same function as
\* generateCursorChecksum of part_002 43-85)
\* ------------------------------------------------------------------------
\* a ^ b on naturals
RECURSIVE BitXorNat(_, _)
BitXorNat(a, b) ==
  IF a = 0 THEN b
  ELSE IF b = 0 THEN a
  ELSE (IF a % 2 # b % 2 THEN 1 ELSE 0) + 2 * BitXorNat(a \div 2, b \div 2)

\* new Uint8Array([(timestamp >> 40) & 0xFF, ..., timestamp & 0xFF])
timestampBytes(timestamp) ==
  <<ShiftRight(timestamp, 40) % 256, ShiftRight(timestamp, 32) % 256,
    ShiftRight(timestamp, 24) % 256, ShiftRight(timestamp, 16) % 256,
    ShiftRight(timestamp, 8) % 256, timestamp % 256>>

\* the cipher loop: byteArray[i] = ((byteArray[i] ^ t) + (i % 256)) & 0xFF;
\* t = byteArray[i]
RECURSIVE jyhLoop(_, _, _)
RECURSIVE jyhSet(_, _, _)
jyhSet(byteArray, i, b) ==
  jyhLoop([byteArray EXCEPT ![i + 1] = b], i + 1, b)

jyhLoop(byteArray, i, t) ==
  IF i < Len(byteArray)
  THEN jyhSet(byteArray, i,
              (BitXorNat(byteArray[i + 1], t) + (i % 256)) % 256)
  ELSE byteArray

jyhCipher(byteArray) == jyhLoop(byteArray, 0, 165)

alphabet ==
  <<"A", "B", "C", "D", "E", "F", "G", "H", "I", "J", "K", "L", "M", "N",
      "O", "P", "Q", "R", "S", "T", "U", "V", "W", "X", "Y", "Z", "a", "b",
      "c", "d", "e", "f", "g", "h", "i", "j", "k", "l", "m", "n", "o", "p",
      "q", "r", "s", "t", "u", "v", "w", "x", "y", "z", "0", "1", "2", "3",
      "4", "5", "6", "7", "8", "9", "-", "_">>

\* the encoding loop, three bytes a turn
base64Group(byteArray, i, a, b, c) ==
  <<alphabet[ShiftRight(a, 2) + 1],
    alphabet[BitOr(ShiftLeft(a % 4, 4), ShiftRight(b, 4)) + 1]>>
    \o (IF i + 1 < Len(byteArray)
        THEN <<alphabet[BitOr(ShiftLeft(b % 16, 2), ShiftRight(c, 6)) + 1]>>
        ELSE <<>>)
    \o (IF i + 2 < Len(byteArray) THEN <<alphabet[(c % 64) + 1]>>
        ELSE <<>>)

RECURSIVE base64Loop(_, _)
base64Loop(byteArray, i) ==
  IF i < Len(byteArray)
  THEN base64Group(byteArray, i, byteArray[i + 1],
                   IF i + 1 < Len(byteArray) THEN byteArray[i + 2] ELSE 0,
                   IF i + 2 < Len(byteArray) THEN byteArray[i + 3] ELSE 0)
         \o base64Loop(byteArray, i + 3)
  ELSE <<>>

base64Url(byteArray) == base64Loop(byteArray, 0)

\* Math.floor(Date.now() / 1000000): the values with bytes 0, 1, 165 and
\* 255 in the three low places, the value of 5 November 2026, and 2^24
Timestamps ==
  {a + 256 * b + 65536 * c : a, b, c \in {0, 1, 165, 255}}
    \cup {1793900, 16777216}

MachineIds == {<<>>, <<"m", "1", "d">>}

InitChecksum ==
  /\ IdleCore
  /\ exec = IdleExec
  /\ cursor = IdleCursor
  /\ decode = IdleDecode
  /\ framing = IdleFraming
  /\ \E timestamp \in Timestamps, machineId \in MachineIds :
       checksum = [pc |-> "start", timestamp |-> timestamp,
                   machineId |-> machineId, input |-> <<>>,
                   byteArray |-> <<>>, header |-> <<>>]
  /\ clear = IdleClear

checksumFrame ==
  <<coreVars, handlerVars, exec, cursor, decode, framing, clear>>

\* generateChecksum: the byte array of the timestamp
TimestampBytes ==
  /\ checksum.pc = "start"
  /\ checksum' = [checksum EXCEPT
                    !.pc = "bytes",
                    !.input = timestampBytes(checksum.timestamp),
                    !.byteArray = timestampBytes(checksum.timestamp)]
  /\ UNCHANGED checksumFrame

\* generateChecksum: the cipher loop
JyhCipher ==
  /\ checksum.pc = "bytes"
  /\ checksum' = [checksum EXCEPT
                    !.pc = "ciphered",
                    !.byteArray = jyhCipher(checksum.byteArray)]
  /\ UNCHANGED checksumFrame

\* generateChecksum: the encoding and `${encoded}${machineId}`
EncodeChecksum ==
  /\ checksum.pc = "ciphered"
  /\ checksum' = [checksum EXCEPT
                    !.pc = "done",
                    !.header = base64Url(checksum.byteArray)
                                 \o checksum.machineId]
  /\ UNCHANGED checksumFrame

NextChecksum ==
  \/ TimestampBytes
  \/ JyhCipher
  \/ EncodeChecksum

SpecChecksum == InitChecksum /\ [][NextChecksum]_vars

\* ------------------------------------------------------------------------
\* clearAccountError on its own (auth.js 182-198)
\* ------------------------------------------------------------------------
\* the values of testStatus
TestStatuses == {"active", "unavailable", "expired", "error", "success"}

\* the snapshots of connection A a caller can hold: any status, no error
\* text, an empty or a non-empty one, no cooldown or one, any backoff level
ClearSnapshots ==
  {[NewConnection("A", "p1", 1) EXCEPT
      !.testStatus = status, !.lastError = lastError,
      !.rateLimitedUntil = until, !.backoffLevel = level,
      !.lastErrorAt = IF lastError = NullText THEN Null ELSE Epoch] :
     status \in TestStatuses,
     lastError \in {NullText, <<>>, TxtRequestAborted},
     until \in {Null, Epoch + 1},
     level \in 0..BACKOFF_CONFIG.maxLevel}

InitClear ==
  /\ IdleCore
  /\ exec = IdleExec
  /\ cursor = IdleCursor
  /\ decode = IdleDecode
  /\ framing = IdleFraming
  /\ checksum = IdleChecksum
  /\ \E snapshot \in ClearSnapshots :
       clear = [pc |-> "call", currentConnection |-> snapshot,
                connections |-> [id \in {"A"} |-> snapshot],
                updates |-> <<>>]

clearFrame ==
  <<coreVars, handlerVars, exec, cursor, decode, framing, checksum>>

\* clearAccountError(connectionId, currentConnection)
ClearAccountError ==
  /\ clear.pc = "call"
  /\ clear' =
       IF ~hasError(clear.currentConnection)
       THEN [clear EXCEPT !.pc = "done"]
       ELSE [clear EXCEPT
               !.pc = "done",
               !.connections = updateProviderConnection(@, "A", clearPatch),
               !.updates = Append(@, clearPatch)]
  /\ UNCHANGED clearFrame

NextClear == ClearAccountError

SpecClear == InitClear /\ [][NextClear]_vars

\* ------------------------------------------------------------------------
\* Properties
\* ------------------------------------------------------------------------
RateLimited(c, t) == c.rateLimitedUntil # Null /\ c.rateLimitedUntil > t

\* C1: a connection returned by getProviderCredentials is active, belongs to
\* the requested provider, is not the excluded connection, and its
\* rateLimitedUntil is not later than the instant of the selection.
SelectionReturnsAvailable ==
  \A r \in Reqs :
    req[r].credentials.kind = "conn" =>
      LET c == req[r].credentials.connection
      IN  /\ c.id \in ConnIds
          /\ c.isActive
          /\ c.provider = req[r].provider
          /\ c.id # req[r].excludeConnectionId
          /\ ~RateLimited(c, req[r].selNow)

\* a request got B because A, not excluded, was in cooldown at the selection
SelectionSkippedCooldown ==
  \E r \in Reqs :
    /\ req[r].credentials.kind = "conn"
    /\ req[r].excludeConnectionId = NoId
    /\ req[r].credentials.connection.id = "B"
    /\ RateLimited(store["A"], req[r].selNow)

\* C2: at most one getProviderCredentials call at a time is between its read
\* of the connections and its return, and the promise that frees the mutex is
\* unresolved as long as the call is there, in particular while its
\* lastUsedAt/consecutiveUseCount write is in flight or has just committed.
SelectionMutualExclusion ==
  /\ \A r, q \in Reqs : (r # q /\ InCriticalSection(r)) => ~InCriticalSection(q)
  /\ \A r \in Reqs : InCriticalSection(r) => req[r].resolveMutex \notin resolved

\* a selection has committed its write and not yet returned while another
\* call waits for the mutex
WriteHeldWhileOtherWaits ==
  \E r, q \in Reqs :
    /\ req[r].pc = "written"
    /\ req[q].pc = "await"
    /\ req[q].currentMutex = req[r].resolveMutex

\* C3: calls enter the critical section in the order of their invocation:
\* the promises are created in invocation order, and the call that enters is
\* the one invoked right after the call that entered last.
SelectionFIFO ==
  [][\A r \in Reqs :
       /\ (req[r].pc # "await" /\ req'[r].pc = "await")
            => (req'[r].resolveMutex = nextPromise /\ nextPromise' = nextPromise + 1)
       /\ (req[r].pc = "await" /\ req'[r].pc # "await")
            => req[r].resolveMutex = lastEntered + 1]_vars

\* two calls have entered in turn and a third waits behind a call that
\* has not returned
ThirdCallQueued ==
  /\ lastEntered >= 2
  /\ \E r \in Reqs : req[r].pc = "await" /\ ~MutexFree(r)

\* the step in which request r is answered with a success
Succeeds(r) ==
  /\ req[r].pc \in {"got", "clearing"}
  /\ req'[r].pc = "done"
  /\ req'[r].response.status = 200

\* C4: after a request completed successfully through a connection, the
\* connection's rateLimitedUntil, lastError and errorCode are null and its
\* backoffLevel is 0 (stated for the requests during which no other request
\* marked the connection).
SuccessClearsErrorState ==
  [][\A r \in Reqs :
       (Succeeds(r) /\ ~req[r].raced) =>
         LET c == store'[req[r].credentials.connection.id]
         IN  /\ c.rateLimitedUntil = Null
             /\ c.lastError = NullText
             /\ c.errorCode = Null
             /\ c.backoffLevel = 0]_vars

\* C5: when another request's markAccountUnavailable committed on the
\* connection after request r selected it and before r's success was
\* processed, the connection is cleared after r's success and the next
\* selection sees it as available.
MarkThenClearOrdered ==
  [][\A r \in Reqs :
       (Succeeds(r) /\ req[r].raced) =>
         LET c == store'[req[r].credentials.connection.id]
         IN  /\ c.rateLimitedUntil = Null
             /\ c.backoffLevel = 0
             /\ ~isAccountUnavailable(c.rateLimitedUntil, now')]_vars

\* what the texts of Texts contain, read off the texts by hand
TextFacts(t) ==
  CASE t = TxtRateLimit      -> [noCredentials |-> FALSE, requestNotAllowed |-> FALSE, rateLimit |-> TRUE]
    [] t = TxtTooMany        -> [noCredentials |-> FALSE, requestNotAllowed |-> FALSE, rateLimit |-> TRUE]
    [] t = TxtQuota          -> [noCredentials |-> FALSE, requestNotAllowed |-> FALSE, rateLimit |-> TRUE]
    [] t = TxtCapacity       -> [noCredentials |-> FALSE, requestNotAllowed |-> FALSE, rateLimit |-> TRUE]
    [] t = TxtOverloaded     -> [noCredentials |-> FALSE, requestNotAllowed |-> FALSE, rateLimit |-> TRUE]
    [] t = TxtNoCreds        -> [noCredentials |-> TRUE, requestNotAllowed |-> FALSE, rateLimit |-> FALSE]
    [] t = TxtNotAllowed     -> [noCredentials |-> FALSE, requestNotAllowed |-> TRUE, rateLimit |-> FALSE]
    [] t = TxtNoCredsRate    -> [noCredentials |-> TRUE, requestNotAllowed |-> FALSE, rateLimit |-> TRUE]
    [] t = TxtRateNotAllowed -> [noCredentials |-> FALSE, requestNotAllowed |-> TRUE, rateLimit |-> TRUE]
    [] OTHER                 -> [noCredentials |-> FALSE, requestNotAllowed |-> FALSE, rateLimit |-> FALSE]

\* min(base * 2^n, max) and min(n + 1, maxLevel), written out
ExpectedCooldown(n) ==
  IF BACKOFF_CONFIG.base * (2 ^ n) <= BACKOFF_CONFIG.max
    THEN BACKOFF_CONFIG.base * (2 ^ n) ELSE BACKOFF_CONFIG.max

ExpectedLevel(n) ==
  IF n + 1 <= BACKOFF_CONFIG.maxLevel THEN n + 1 ELSE BACKOFF_CONFIG.maxLevel

BackoffApplied ==
  /\ cls.out.cooldownMs = ExpectedCooldown(cls.backoffLevel)
  /\ cls.stored = ExpectedLevel(cls.backoffLevel)
  /\ cls.stored >= cls.backoffLevel
  /\ cls.stored <= BACKOFF_CONFIG.maxLevel
  /\ cls.out.cooldownMs <= BACKOFF_CONFIG.max

\* C6 as stated: every failure with status 429 or a rate-limit text gets the
\* cooldown min(base * 2^n, max) and the level min(n + 1, maxLevel); the
\* level does not decrease and stays within maxLevel, the cooldown within max.
BackoffOnEveryRateLimitFailure ==
  (cls.status # Null /\ (cls.status = 429 \/ TextFacts(cls.errorText).rateLimit))
     => BackoffApplied

\* C6 amended: the same for every failure with status 429 or a rate-limit
\* text whose text contains neither "no credentials" nor "request not
\* allowed"; and the stored level never exceeds maxLevel whatever the failure.
BackoffOnRateLimitFailure ==
  /\ cls.stored <= BACKOFF_CONFIG.maxLevel
  /\ (/\ cls.status # Null
      /\ (cls.status = 429 \/ TextFacts(cls.errorText).rateLimit)
      /\ ~TextFacts(cls.errorText).noCredentials
      /\ ~TextFacts(cls.errorText).requestNotAllowed)
       => BackoffApplied

\* a rate-limit failure at maxLevel: the level stays, the cooldown is clipped
BackoffAtMaxLevel ==
  /\ cls.status = 429
  /\ cls.errorText = TxtRateLimit
  /\ cls.backoffLevel = BACKOFF_CONFIG.maxLevel
  /\ cls.stored = BACKOFF_CONFIG.maxLevel
  /\ cls.out.cooldownMs = BACKOFF_CONFIG.max
  /\ BACKOFF_CONFIG.base * (2 ^ cls.backoffLevel) > BACKOFF_CONFIG.max

\* C7: k committed markAccountUnavailable calls for rate-limit failures on a
\* connection that started at level 0 and saw no success leave the stored
\* backoffLevel at min(k, maxLevel), whatever the interleaving.
BackoffCountsEveryFailure ==
  \A id \in ConnIds :
    id \notin everCleared =>
      store[id].backoffLevel = Min(rlCommits[id], BACKOFF_CONFIG.maxLevel)

\* the reference decision list of C8: the first rule that matches wins
ReferenceDecision(status, text, n) ==
  LET facts == TextFacts(text)
      backoff == FallbackResult(ExpectedCooldown(n), ExpectedLevel(n))
      rules ==
        << [match |-> facts.noCredentials,
            out |-> FallbackResult(COOLDOWN_MS.notFound, Undefined)],
           [match |-> facts.requestNotAllowed,
            out |-> FallbackResult(COOLDOWN_MS.requestNotAllowed, Undefined)],
           [match |-> facts.rateLimit, out |-> backoff],
           [match |-> status = 401,
            out |-> FallbackResult(COOLDOWN_MS.unauthorized, Undefined)],
           [match |-> status \in {402, 403},
            out |-> FallbackResult(COOLDOWN_MS.paymentRequired, Undefined)],
           [match |-> status = 404,
            out |-> FallbackResult(COOLDOWN_MS.notFound, Undefined)],
           [match |-> status = 429, out |-> backoff],
           [match |-> TRUE,
            out |-> FallbackResult(COOLDOWN_MS.transient, Undefined)] >>
      first == CHOOSE i \in 1..Len(rules) :
                 rules[i].match /\ \A j \in 1..(i - 1) : ~rules[j].match
  IN  rules[first].out

\* C8: checkFallbackError answers as the reference decision list does, for
\* every status, every text (any letter case) and every level.
ClassifierMatchesDecisionList ==
  cls.status # Null =>
    cls.out = ReferenceDecision(cls.status, cls.errorText, cls.backoffLevel)

\* status 401 with a body "Rate limit exceeded" got the backoff rule
UnauthorizedWithRateLimitText ==
  /\ cls.status = 401
  /\ cls.errorText = TxtRateLimit
  /\ cls.out.newBackoffLevel = cls.backoffLevel + 1
  /\ cls.out.cooldownMs # COOLDOWN_MS.unauthorized

\* C9: under fill-first a selection returns the connection that is first in
\* priority order among the connections of the snapshot that are neither
\* excluded nor in cooldown; so the retry after a 429 on A returns B.
FillFirstTakesFirstAvailable ==
  [][\A r \in Reqs :
       (/\ req[r].pc = "settings"
        /\ req'[r].pc = "got"
        /\ settings.fallbackStrategy = "fill-first") =>
         LET snap == req[r].connections
             eligible == {i \in 1..Len(snap) :
                            /\ snap[i].id # req[r].excludeConnectionId
                            /\ ~RateLimited(snap[i], req[r].selNow)}
             c == req'[r].credentials.connection
         IN  /\ \E i \in eligible : snap[i] = c
             /\ \A j \in eligible : snap[j].priority >= c.priority
             /\ (/\ req[r].excludeConnectionId = "A"
                 /\ req[r].lastStatus = 429
                 /\ \E i \in eligible : snap[i].id = "B") => c.id = "B"]_vars

\* a request whose attempt on A ended with 429 got B on its retry
RetryAfter429GotNext ==
  \E r \in Reqs :
    /\ settings.fallbackStrategy = "fill-first"
    /\ req[r].pc = "got"
    /\ req[r].excludeConnectionId = "A"
    /\ req[r].lastStatus = 429
    /\ req[r].credentials.connection.id = "B"
    /\ store["A"].testStatus = "unavailable"

StrictlyLater(k) == \A i \in 1..(k - 1) : served[i].at < served[i + 1].at

\* C10 as stated: six serial round-robin selections at stickyRoundRobinLimit 2
\* over fresh A and B, each at a later instant than the one before, return
\* A, A, B, B, B, A.
StickyRoundRobinAsStated ==
  \A k \in 1..Min(Len(served), 6) :
    StrictlyLater(k) => served[k].id = <<"A", "A", "B", "B", "B", "A">>[k]

\* C10 amended: they return A, A, B, B, A, A.
StickyRoundRobinSequence ==
  \A k \in 1..Min(Len(served), 6) :
    StrictlyLater(k) => served[k].id = <<"A", "A", "B", "B", "A", "A">>[k]

\* six selections at six different instants have been served
SixServedAtDistinctInstants ==
  /\ Len(served) >= 6
  /\ StrictlyLater(6)
  /\ store["A"].consecutiveUseCount = 2

\* ------------------------------------------------------------------------
\* The answer when every connection is in cooldown (C11, C12)
\* ------------------------------------------------------------------------
\* the number a decimal text denotes
RECURSIVE ParseDecimal(_)
ParseDecimal(text) ==
  IF Len(text) = 0 THEN 0
  ELSE IF text[1] = "-" THEN 0 - ParseDecimal(Tail(text))
  ELSE LET last == text[Len(text)]
           value == CHOOSE d \in 0..9 : Digits[d + 1] = last
       IN  10 * ParseDecimal(SubSeq(text, 1, Len(text) - 1)) + value

\* k is the number of whole seconds that covers ms milliseconds
IsCeilSeconds(k, ms) == (k - 1) * 1000 < ms /\ ms <= k * 1000

\* the connections the request's provider offers, and the instant the first
\* of those in cooldown at selection recovers
UnaConnections == {id \in ConnIds : store[id].provider = una.provider /\ store[id].isActive}

UnaCooling == {id \in UnaConnections : RateLimited(store[id], una.selectedAt)}

UnaEarliestIds ==
  {id \in UnaCooling :
     \A o \in UnaCooling : store[id].rateLimitedUntil <= store[o].rateLimitedUntil}

UnaEarliest == store[CHOOSE id \in UnaEarliestIds : TRUE].rateLimitedUntil

\* the request was answered and every connection was in cooldown when it
\* asked for one
AllCoolingAtRequest == una.pc = "done" /\ una.allCooling

\* the Retry-After header is the number of seconds until the earliest
\* connection recovers
RetryAfterIsSecondsLeft ==
  /\ "Retry-After" \in DOMAIN una.response.headers
  /\ UnaEarliest - una.respondedAt > 0 =>
       IsCeilSeconds(ParseDecimal(una.response.headers["Retry-After"]),
                     UnaEarliest - una.respondedAt)

\* hints written out by hand for the seconds left at selection
HintTable ==
  {[seconds |-> 1,    text |-> <<"(", "r", "e", "s", "e", "t", " ", "a", "f", "t", "e", "r", " ", "1", "s", ")">>],
   [seconds |-> 28,   text |-> <<"(", "r", "e", "s", "e", "t", " ", "a", "f", "t", "e", "r", " ", "2", "8", "s", ")">>],
   [seconds |-> 29,   text |-> <<"(", "r", "e", "s", "e", "t", " ", "a", "f", "t", "e", "r", " ", "2", "9", "s", ")">>],
   [seconds |-> 30,   text |-> <<"(", "r", "e", "s", "e", "t", " ", "a", "f", "t", "e", "r", " ", "3", "0", "s", ")">>],
   [seconds |-> 88,   text |-> <<"(", "r", "e", "s", "e", "t", " ", "a", "f", "t", "e", "r", " ", "1", "m", " ", "2", "8", "s", ")">>],
   [seconds |-> 89,   text |-> <<"(", "r", "e", "s", "e", "t", " ", "a", "f", "t", "e", "r", " ", "1", "m", " ", "2", "9", "s", ")">>],
   [seconds |-> 90,   text |-> <<"(", "r", "e", "s", "e", "t", " ", "a", "f", "t", "e", "r", " ", "1", "m", " ", "3", "0", "s", ")">>],
   [seconds |-> 3659, text |-> <<"(", "r", "e", "s", "e", "t", " ", "a", "f", "t", "e", "r", " ", "1", "h", " ", "5", "9", "s", ")">>],
   [seconds |-> 3660, text |-> <<"(", "r", "e", "s", "e", "t", " ", "a", "f", "t", "e", "r", " ", "1", "h", " ", "1", "m", ")">>],
   [seconds |-> 3661, text |-> <<"(", "r", "e", "s", "e", "t", " ", "a", "f", "t", "e", "r", " ", "1", "h", " ", "1", "m", " ", "1", "s", ")">>]}

\* the body message carries the human hint for the seconds left at selection
BodyCarriesHint ==
  /\ includes(una.response.body.error.message, TxtResetAfter)
  /\ \A e \in HintTable :
       IsCeilSeconds(e.seconds, UnaEarliest - una.selectedAt) =>
         includes(una.response.body.error.message, e.text)

\* C11 as stated: when every connection of the provider is in cooldown at
\* request time, the request is answered 503 with Retry-After = the seconds
\* until the earliest connection recovers and a body that carries the hint
\* "reset after Ns", and no upstream call is made.
AllInCooldownAnswers503 ==
  AllCoolingAtRequest =>
    /\ una.response.status = 503
    /\ RetryAfterIsSecondsLeft
    /\ BodyCarriesHint
    /\ una.upstreamCalls = 0

\* C11 amended: the status is the error code the earlier failure stored on
\* the earliest-recovering connection, and 503 only when none is stored;
\* Retry-After, hint and the absence of an upstream call are as stated.
AllInCooldownAnswer ==
  AllCoolingAtRequest =>
    /\ \E id \in UnaEarliestIds :
         una.response.status =
           IF store[id].errorCode # Null THEN store[id].errorCode ELSE 503
    /\ RetryAfterIsSecondsLeft
    /\ BodyCarriesHint
    /\ una.upstreamCalls = 0

\* witness of C11: both connections 30 s from recovery after a 429, answered
\* 429 with Retry-After 30 and "reset after 30s"
ThirtySecondsLeft ==
  /\ AllCoolingAtRequest
  /\ UnaEarliest - una.selectedAt = 30000
  /\ una.response.status = 429
  /\ una.response.headers["Retry-After"] = <<"3", "0">>
  /\ includes(una.response.body.error.message, <<"(", "r", "e", "s", "e", "t", " ", "a", "f", "t", "e", "r", " ", "3", "0", "s", ")">>)

\* C12: the Retry-After header of an all-accounts-unavailable response is
\* max(1, ceil((earliestRateLimitedUntil - now) / 1000)) at the instant the
\* response is built: at least 1, also when the earliest cooldown has
\* expired between selection and response.
RetryAfterAtLeastOne ==
  (una.pc = "done" /\ una.credentials.kind = "allRateLimited") =>
    /\ "Retry-After" \in DOMAIN una.response.headers
    /\ LET sec == ParseDecimal(una.response.headers["Retry-After"])
           diff == UnaEarliest - una.respondedAt
       IN  /\ una.response.headers["Retry-After"] = DecimalString(sec)
           /\ sec >= 1
           /\ IF diff <= 0 THEN sec = 1 ELSE IsCeilSeconds(sec, diff)

\* witness of C12: the response is built after the earliest cooldown expired
RespondedAfterExpiry ==
  /\ una.pc = "done"
  /\ una.credentials.kind = "allRateLimited"
  /\ una.respondedAt >= UnaEarliest
  /\ una.response.headers["Retry-After"] = <<"1">>

\* ------------------------------------------------------------------------
\* The account loop of handleSingleModelChat (C13, C14)
\* ------------------------------------------------------------------------
\* C13: every failed upstream attempt is followed by markAccountUnavailable
\* on the connection that was used; on fallback the loop goes on with
\* excludeConnectionId set to that connection, the next selection never
\* returns the excluded connection, and a failure reaches the client only
\* when the classifier says no fallback or selection finds no account.
FailedAttemptMarksAndExcludes ==
  [][\A r \in Reqs :
       LET id == req[r].credentials.connection.id
       IN  /\ (req[r].pc = "got" /\ req'[r].result # NoResult) =>
                IF checkFallbackError(req'[r].result.status,
                                      req'[r].result.error, 0).shouldFallback
                  THEN /\ req'[r].pc = "markWrite"
                       /\ req'[r].credentials.connection.id = id
                       /\ req'[r].patch.testStatus = "unavailable"
                       /\ req'[r].patch.errorCode = req'[r].result.status
                       /\ req'[r].patch.rateLimitedUntil > now
                       /\ req'[r].response = NoResponse
                  ELSE /\ req'[r].pc = "done"
                       /\ req'[r].response.status = req'[r].result.status
           /\ (req[r].pc = "markWrite" /\ req'[r].pc # "markWrite") =>
                /\ store'[id].testStatus = "unavailable"
                /\ store'[id].errorCode = req[r].result.status
                /\ store'[id].rateLimitedUntil = req[r].patch.rateLimitedUntil
                /\ req'[r].pc = "select"
                /\ req'[r].excludeConnectionId = id
                /\ req'[r].lastStatus = req[r].result.status
                /\ req'[r].response = NoResponse
           /\ (req[r].pc = "settings" /\ req'[r].pc # "settings") =>
                req'[r].credentials.connection.id # req[r].excludeConnectionId
           /\ (req[r].pc # "done" /\ req'[r].pc = "done"
                 /\ req'[r].response.status # 200) =>
                \/ req'[r].credentials.kind \in {"null", "allRateLimited"}
                \/ /\ req'[r].result # NoResult
                   /\ ~checkFallbackError(req'[r].result.status,
                                          req'[r].result.error, 0).shouldFallback
  ]_vars

\* witness of C13: after a failure on one connection the loop holds the
\* other one, although the cooldown of the failed one is already over
FallbackChoseOther ==
  \E r \in Reqs :
    /\ req[r].pc = "got"
    /\ req[r].excludeConnectionId # NoId
    /\ req[r].lastStatus # Null
    /\ req[r].credentials.connection.id # req[r].excludeConnectionId
    /\ ~RateLimited(store[req[r].excludeConnectionId], req[r].selNow)

\* C14 as stated: whenever selection returns null, the request is answered
\* 400 'No credentials for provider'.
NullSelectionAnswers400 ==
  \A r \in Reqs :
    (req[r].pc = "done" /\ req[r].credentials.kind = "null") =>
      /\ req[r].response.status = 400
      /\ req[r].response.kind = "no_credentials"

\* C14 amended: null on the first iteration (nothing excluded) is answered
\* 400 'No credentials for provider'; null after a fallback is answered with
\* the last upstream status; a provider without connections is answered 400
\* and never gets as far as a selected connection or an upstream call.
NullSelectionAnswer ==
  \A r \in Reqs :
    /\ (req[r].pc = "done" /\ req[r].credentials.kind = "null") =>
         IF req[r].excludeConnectionId = NoId
           THEN /\ req[r].response.status = 400
                /\ req[r].response.kind = "no_credentials"
           ELSE /\ req[r].lastStatus # Null
                /\ req[r].response.status = req[r].lastStatus
                /\ req[r].response.kind = "error"
    /\ (\A id \in ConnIds : store[id].provider # req[r].provider) =>
         /\ req[r].pc \in {"idle", "await", "readAll", "done"}
         /\ req[r].excludeConnectionId = NoId
         /\ req[r].pc = "done" =>
              /\ req[r].credentials.kind = "null"
              /\ req[r].response.status = 400

\* witness of C14: the only connection failed with 429 and is excluded, its
\* cooldown is over at the next selection, which returns null
NullAfterFallback ==
  \E r \in Reqs :
    /\ req[r].pc = "done"
    /\ req[r].credentials.kind = "null"
    /\ req[r].excludeConnectionId = "A"
    /\ req[r].response.status = 429

\* ------------------------------------------------------------------------
\* handleChat and the combo loop (C15, C16, C17)
\* ------------------------------------------------------------------------
\* the parsed body carries no model
NoModel(body) ==
  \/ body.type # "object"
  \/ body.model.type # "string"
  \/ body.model.value = <<>>

\* C15: a request whose body is not parseable JSON, or whose parsed body
\* carries no model (a body that is JSON but not an object included), is
\* answered 400, with no combo lookup and no call of handleSingleModelChat.
InvalidRequestAnswered400 ==
  (/\ chat.pc \in {"done", "threw"}
   /\ \/ chat.request.parse = "throws"
      \/ NoModel(chat.request.body)) =>
    /\ chat.response.status = 400
    /\ chat.comboLookups = 0
    /\ chat.invoked = <<>>

\* the request went through the combo loop
IsCombo == chat.models # <<>>

\* C16: the models of a combo are tried strictly in list order; a 2xx
\* response ends the loop and is the answer; model i+1 is tried only after
\* model i answered non-2xx with an error classified as fallback.
ComboTriesModelsInOrder ==
  IsCombo =>
    /\ Len(chat.invoked) <= Len(chat.models)
    /\ chat.invoked = SubSeq(chat.models, 1, Len(chat.invoked))
    /\ Len(chat.results) = Len(chat.invoked)
    /\ \A k \in 1..Len(chat.results) :
         IF chat.results[k].status \in 200..299
           THEN /\ k = Len(chat.results)
                /\ chat.pc = "done"
                /\ chat.response = chat.results[k]
           ELSE k < Len(chat.results) =>
                  checkFallbackError(chat.results[k].status,
                    chat.results[k].body.error.message, 0).shouldFallback

\* witness of C16: the first model failed with 429, the second answered 200
\* and is the answer, the third was not tried
SecondModelServed ==
  /\ IsCombo
  /\ chat.pc = "done"
  /\ Len(chat.models) = 3
  /\ Len(chat.invoked) = 2
  /\ chat.results[1].status = 429
  /\ chat.response = okResponse

\* every model of the combo was tried and failed
ComboExhausted ==
  /\ IsCombo
  /\ chat.pc = "done"
  /\ Len(chat.results) = Len(chat.models)
  /\ \A k \in 1..Len(chat.results) : chat.results[k].status \notin 200..299

\* C17: when every model of a combo fails the answer is 406; it carries a
\* Retry-After header if an attempt ended with all accounts rate-limited
\* (an unavailableResponse, which reports when to retry), and is a plain
\* error body without Retry-After otherwise.
ComboExhaustedAnswer ==
  ComboExhausted =>
    /\ chat.response.status = 406
    /\ ("Retry-After" \in DOMAIN chat.response.headers) <=>
         (\E k \in 1..Len(chat.results) :
            "Retry-After" \in DOMAIN chat.results[k].headers)

\* ------------------------------------------------------------------------
\* Token refresh (C18, C19, C20)
\* ------------------------------------------------------------------------
\* no token among the outcomes
IsFailure(outcome) == outcome \in {"null", "throw"}

\* refreshWithRetry has returned
RefreshReturned == refresh.pc = "done" /\ refresh.stale

\* at most three calls, none after the first token, and the loop comes to
\* its end: every position before the return has a step, and a run has at
\* most five steps
RefreshBounded ==
  /\ refresh.calls <= 3
  /\ Len(refresh.outcomes) = refresh.calls
  /\ \A k \in 1..Len(refresh.outcomes) :
       ~IsFailure(refresh.outcomes[k]) =>
         k = Len(refresh.outcomes) /\ refresh.pc = "done"
  /\ refresh.calls + Len(refresh.delays) <= 5
  /\ refresh.pc \in {"check", "call", "wait"} => ENABLED NextRefresh

FirstToken ==
  LET tokens == {k \in 1..Len(refresh.outcomes) : ~IsFailure(refresh.outcomes[k])}
  IN  IF tokens = {} THEN "null"
      ELSE refresh.outcomes[CHOOSE k \in tokens : \A j \in tokens : k <= j]

\* C19: refreshWithRetry never propagates an exception; it returns the first
\* non-null token and null when no attempt yields one; an attempt that
\* throws is followed by the next attempt.
RefreshNeverThrows ==
  /\ refresh.pc # "threw"
  /\ RefreshReturned =>
       /\ refresh.result = FirstToken
       /\ refresh.result = "null" => refresh.calls = 3
  /\ \A k \in 1..Len(refresh.outcomes) :
       (refresh.outcomes[k] = "throw" /\ k < 3) =>
         \/ Len(refresh.outcomes) > k
         \/ refresh.pc \in {"wait", "call"}

\* witness of C19: the first attempt throws, the second yields a token
ThrowThenToken ==
  /\ RefreshReturned
  /\ refresh.outcomes = <<"throw", "token1">>
  /\ refresh.result = "token1"

\* C20: needsRefresh is true exactly when expiresAt is present and less than
\* the 5-minute buffer ahead (2 minutes: stale; 10 minutes: not stale), and
\* false when expiresAt is missing.
NeedsRefreshWithinBuffer ==
  refresh.pc \notin {"idle", "check"} =>
    /\ TOKEN_EXPIRY_BUFFER_MS = 300000
    /\ refresh.stale <=>
         (/\ refresh.expiresAt # Null
          /\ refresh.expiresAt - refresh.checkedAt < TOKEN_EXPIRY_BUFFER_MS)
    /\ refresh.expiresAt = Null => ~refresh.stale
    /\ refresh.expiresAt = refresh.checkedAt + 120000 => refresh.stale
    /\ refresh.expiresAt = refresh.checkedAt + 600000 => ~refresh.stale

\* witness of C20: a token with two minutes left was found stale
TwoMinutesLeftIsStale ==
  /\ refresh.pc \notin {"idle", "check"}
  /\ refresh.expiresAt = refresh.checkedAt + 120000
  /\ refresh.stale

\* the fetch outcomes after which execute goes on to the next URL
Advances(outcome) ==
  \/ outcome.kind = "error"
  \/ outcome.kind = "response" /\ outcome.status = 429

\* C21: execute tries the base URLs in index order, at most once each; it
\* goes on to the next URL only after a 429 or a network error and only
\* while another URL remains; the caller gets the outcome of the last URL
\* tried (its response, a 429 of the final URL included, or its thrown
\* error), and a response other than 429 is returned at once
ExecuteTriesUrlsInOrder ==
  LET n == Len(exec.outcomes)
      count == getFallbackCount(exec.config)
      baseUrls == getBaseUrls(exec.config)
  IN exec.pc # "idle" =>
       /\ n <= count
       /\ Len(exec.urls) = n
       /\ \A k \in 1..n :
            exec.urls[k] = IF baseUrls = <<>> THEN exec.config.baseUrl
                           ELSE baseUrls[k]
       /\ \A k \in 1..(n - 1) : Advances(exec.outcomes[k])
       /\ exec.pc = "loop" =>
            /\ n < count
            /\ \A k \in 1..n : Advances(exec.outcomes[k])
       /\ exec.pc = "returned" =>
            /\ n >= 1
            /\ exec.outcomes[n].kind = "response"
            /\ exec.result = exec.outcomes[n]
            /\ exec.outcomes[n].status = 429 => n = count
       /\ exec.pc = "threw" =>
            /\ n = count
            /\ exec.outcomes[n].kind = "error"
            /\ exec.result = exec.outcomes[n]

\* two URLs, both answer 429: the caller gets the 429 of the second
FinalUrl429Returned ==
  /\ exec.pc = "returned"
  /\ getFallbackCount(exec.config) = 2
  /\ Len(exec.outcomes) = 2
  /\ exec.outcomes[1] = FetchResponse(429)
  /\ exec.result = FetchResponse(429)

\* C22: a request that was cancelled during the upstream call leaves
\* rateLimitedUntil, testStatus, lastError and backoffLevel of the
\* connection in use as they were before the request
AbortLeavesConnectionAsItWas ==
  (cursor.pc = "done" /\ cursor.aborted) =>
    /\ store["A"].rateLimitedUntil = cursor.credentials.rateLimitedUntil
    /\ store["A"].testStatus = cursor.credentials.testStatus
    /\ store["A"].lastError = cursor.credentials.lastError
    /\ store["A"].backoffLevel = cursor.credentials.backoffLevel


\* the ids of the tool calls a frame stream carries, and the argument
\* chunks sent for an id, joined in the order of the frames
sentIds(frames) ==
  {frames[i].toolCall.id : i \in 1..Len(frames)} \ {<<>>}

RECURSIVE sentArguments(_, _)
sentArguments(frames, id) ==
  IF frames = <<>> THEN <<>>
  ELSE (IF frames[1].toolCall.id = id THEN frames[1].toolCall.arguments
        ELSE <<>>) \o sentArguments(Tail(frames), id)

\* the argument deltas of an id in the lines of an SSE response, joined
RECURSIVE emittedArguments(_, _)
emittedArguments(lines, id) ==
  IF lines = <<>> THEN <<>>
  ELSE (IF /\ lines[1].delta.tool_calls # <<>>
           /\ lines[1].delta.tool_calls[1].id = id
        THEN lines[1].delta.tool_calls[1].function.arguments
        ELSE <<>>) \o emittedArguments(Tail(lines), id)

\* C23: when a transform has answered 200, every tool-call id of the frame
\* stream is finalised exactly once and its arguments are the chunks sent
\* for it, joined in arrival order (in the tool_calls of the completion; in
\* the streamed deltas and the tool calls the final chunk counts)
ToolCallArgumentsReassembled ==
  (decode.pc = "done" /\ decode.response.status = 200) =>
    \A id \in sentIds(decode.frames) :
      IF decode.path = "json"
      THEN LET calls == decode.response.completion.message.tool_calls
           IN  /\ Cardinality({i \in 1..Len(calls) : calls[i].id = id}) = 1
               /\ \A i \in 1..Len(calls) :
                    calls[i].id = id =>
                      calls[i].function.arguments
                        = sentArguments(decode.frames, id)
      ELSE /\ Cardinality({i \in 1..Len(decode.toolCalls) :
                             decode.toolCalls[i].id = id}) = 1
           /\ emittedArguments(decode.response.lines, id)
                = sentArguments(decode.frames, id)


\* the complete frames of the buffer are decoded one after the other, and
\* what is left of a frame at the end is not decoded
IterationsInBounds ==
  \A k \in 1..Len(decode.steps) :
    LET s == decode.steps[k]
    IN  IF s.break
        THEN /\ k = Len(decode.steps)
             /\ k = Len(decode.frames) + 1
             /\ decode.tail # <<>>
        ELSE /\ k <= Len(decode.frames)
             /\ s.flags = decode.frames[k].flags
             /\ s.length = Uint32(0, Len(decode.frames[k].payload))
             /\ s.consumed = 5 + Len(decode.frames[k].payload)
             /\ s.offset + s.consumed <= Len(decode.buffer)

\* C24: the frame loop comes to an end on every buffer and stays inside
\* it: an iteration stops at what is left of a cut-off frame or takes
\* exactly the 5 + length bytes of the next frame, and
\* parseConnectRPCFrame answers null for a cut-off frame and the 5 + length
\* bytes of a complete one
FrameLoopTerminatesInBounds ==
  /\ decode.pc # "hung"
  /\ IterationsInBounds
  /\ (decode.pc = "done" /\ decode.path = "parse") =>
       IF decode.frames = <<>> THEN decode.parsed.null
       ELSE /\ ~decode.parsed.null
            /\ decode.parsed.consumed = 5 + Len(decode.frames[1].payload)


\* what a decoder has to go on with for a payload it tries to decompress
gunzipOrRaw(payload) ==
  IF gunzipSync(payload).threw THEN payload ELSE gunzipSync(payload).data

\* C25: on every decode path a frame whose flags are not zero in the two
\* low bits is decoded from the decompressed payload, or from the raw
\* payload when it is not gzip
FlaggedPayloadsDecompressed ==
  /\ \A k \in 1..Len(decode.steps) :
       (~decode.steps[k].break /\ decode.steps[k].flags % 4 # 0) =>
         decode.steps[k].data = gunzipOrRaw(decode.frames[k].payload)
  /\ ( /\ decode.pc = "done"
       /\ decode.path = "parse"
       /\ decode.frames # <<>>
       /\ decode.frames[1].flags % 4 # 0 ) =>
       /\ ~decode.parsed.null
       /\ decode.parsed.payload = gunzipOrRaw(decode.frames[1].payload)


\* C26: once the payload a transform decodes is a JSON error object, the
\* transform ends with that frame, and its response is the error alone:
\* 429 rate_limit_error for the code resource_exhausted, 400 api_error for
\* any other, with no chunk, no [DONE] and no completion
ErrorFrameStopsStream ==
  \A k \in 1..Len(decode.steps) :
    LET jsonError == JSONparse(TextDecode(decode.steps[k].data))
        isRateLimit == jsonError.error.code = "resource_exhausted"
    IN  ( /\ ~decode.steps[k].break
          /\ ~jsonError.threw
          /\ (decode.pc = "payload" => k < Len(decode.steps)) ) =>
          /\ decode.pc = "done"
          /\ k = Len(decode.steps)
          /\ decode.response.status = IF isRateLimit THEN 429 ELSE 400
          /\ decode.response.error.type
               = IF isRateLimit THEN "rate_limit_error" ELSE "api_error"
          /\ decode.response.lines = <<>>
          /\ decode.response.completion = <<>>

\* the SSE transform has decoded the text hello and then an error body with
\* the code resource_exhausted: the response is the 429 alone
ErrorAfterTextAnswered429 ==
  /\ decode.pc = "done"
  /\ decode.path = "sse"
  /\ Len(decode.frames) = 2
  /\ decode.frames[1].payload = textPayload(TxtHello)
  /\ decode.frames[2].payload = TextEncode(TxtErrorExhausted)
  /\ decode.totalContent = TxtHello
  /\ decode.response.status = 429


\* the texts the frames of a stream were decoded to, in the order of the
\* frames
RECURSIVE textsOf(_)
textsOf(steps) ==
  IF steps = <<>> THEN <<>>
  ELSE (IF ~steps[1].break
           /\ TruthyText(extractTextFromResponse(steps[1].data).text)
        THEN <<extractTextFromResponse(steps[1].data).text>>
        ELSE <<>>) \o textsOf(Tail(steps))

\* the texts of the content deltas of the lines, in the order of the lines
RECURSIVE contentsOf(_)
contentsOf(lines) ==
  IF lines = <<>> THEN <<>>
  ELSE (IF lines[1].delta.content # <<>> THEN <<lines[1].delta.content>>
        ELSE <<>>) \o contentsOf(Tail(lines))

FramingRoundTrips ==
  (framing.pc \in {"body", "parsed"}) =>
    LET body == framing.body
        payload == SubSeq(body, 6, Len(body))
    IN  /\ Len(body) >= 5
        /\ body[1] = IF Len(framing.messages) >= 3 THEN 1 ELSE 0
        /\ IF Len(framing.messages) >= 3
           THEN /\ ~gunzipSync(payload).threw
                /\ gunzipSync(payload).data = framing.protobuf
           ELSE payload = framing.protobuf
        /\ body[2] = 0
        /\ body[3] * 65536 + body[4] * 256 + body[5] = Len(payload)
        /\ framing.pc = "parsed" =>
             /\ ~framing.parsed.null
             /\ framing.parsed.flags = body[1]
             /\ framing.parsed.length = Len(payload)
             /\ framing.parsed.payload = framing.protobuf
             /\ framing.parsed.consumed = Len(body)

\* a list of three messages has gone out compressed and has been read back
ThreeMessagesRoundTrip ==
  /\ framing.pc = "parsed"
  /\ Len(framing.messages) = 3
  /\ framing.body[1] = 1
  /\ framing.body # <<1, 0, 0, 0, 0>> \o framing.protobuf
  /\ framing.parsed.payload = framing.protobuf
  /\ Len(framing.protobuf) > 0


\* the 48-bit big-endian bytes of a timestamp below 2^31
BigEndian48(t) ==
  <<0, 0, (t \div 16777216) % 256, (t \div 65536) % 256, (t \div 256) % 256,
    t % 256>>

\* C28: the six bytes the cipher starts from are the 48-bit big-endian
\* bytes of the timestamp, the two high ones 0, and the header is the
\* unpadded URL-safe base64 of their cipher, eight characters, followed by
\* the machine id
ChecksumOfBigEndianTimestamp ==
  /\ checksum.pc \in {"bytes", "ciphered", "done"} =>
       checksum.input = BigEndian48(checksum.timestamp)
  /\ checksum.pc = "done" =>
       /\ Len(checksum.header) = 8 + Len(checksum.machineId)
       /\ checksum.header
            = base64Url(jyhCipher(BigEndian48(checksum.timestamp)))
                \o checksum.machineId


\* C30: clearAccountError writes nothing exactly for a snapshot with
\* testStatus active, no lastError and no rateLimitedUntil; for every other
\* snapshot it makes one update that sets testStatus active, backoffLevel 0
\* and clears lastError, lastErrorAt and rateLimitedUntil
ClearsEverySnapshotNotClean ==
  (clear.pc = "done") =>
    IF /\ clear.currentConnection.testStatus = "active"
       /\ ~TruthyText(clear.currentConnection.lastError)
       /\ clear.currentConnection.rateLimitedUntil = Null
    THEN /\ clear.updates = <<>>
         /\ clear.connections["A"] = clear.currentConnection
    ELSE /\ Len(clear.updates) = 1
         /\ clear.connections["A"].testStatus = "active"
         /\ clear.connections["A"].lastError = NullText
         /\ clear.connections["A"].lastErrorAt = Null
         /\ clear.connections["A"].rateLimitedUntil = Null
         /\ clear.connections["A"].backoffLevel = 0


\* the rateLimitedUntil values of the connections that still lie ahead
futureCooldowns(connections, dateNow) ==
  {connections[i].rateLimitedUntil : i \in
     {k \in 1..Len(connections) : /\ connections[k].rateLimitedUntil # Null
                                  /\ connections[k].rateLimitedUntil > dateNow}}

\* C31: when a selection finds active connections and none available, the
\* AllRateLimited result carries as retryAfter the least rateLimitedUntil
\* still ahead over the provider's active connections, and as lastError and
\* lastErrorCode those of a connection that recovers at that instant
EarliestRecoveringReported ==
  [][\A r \in Reqs :
       (/\ req[r].pc = "await"
        /\ req'[r].pc = "done"
        /\ req'[r].credentials.kind = "allRateLimited") =>
         LET connections == getProviderConnections(store, req[r].provider, TRUE)
             ahead == futureCooldowns(connections, now)
             result == req'[r].credentials
         IN  /\ Len(connections) > 0
             /\ ahead # {}
             /\ result.retryAfter \in ahead
             /\ \A u \in ahead : result.retryAfter <= u
             /\ \E i \in 1..Len(connections) :
                   /\ connections[i].rateLimitedUntil = result.retryAfter
                   /\ result.lastError = connections[i].lastError
                   /\ result.lastErrorCode = connections[i].errorCode]_vars

\* a request whose last failure was a 401 on the excluded connection is
\* answered with the 429 of the connection that recovers first
EarliestIsNotLastFailed ==
  \E r \in Reqs :
    /\ req[r].pc = "done"
    /\ req[r].credentials.kind = "allRateLimited"
    /\ req[r].lastStatus = 401
    /\ req[r].credentials.lastErrorCode = 429
    /\ req[r].excludeConnectionId # NoId
    /\ store[req[r].excludeConnectionId].rateLimitedUntil
         > req[r].credentials.retryAfter


\* the content deltas of the lines of an SSE response, joined
RECURSIVE contentDeltas(_)
contentDeltas(lines) ==
  IF lines = <<>> THEN <<>>
  ELSE lines[1].delta.content \o contentDeltas(Tail(lines))

\* the tool-call ids that the lines of an SSE response stream
streamedIds(lines) ==
  {lines[k].delta.tool_calls[1].id :
     k \in {i \in 1..Len(lines) : lines[i].delta.tool_calls # <<>>}}

\* the two transforms have come to the same end on a buffer: both hang, or
\* both answer the same error, or both answer 200 and the completion has
\* the given content, the tool calls that were streamed and the
\* finish_reason of the final chunk
assemblersAgree(json, sse, content) ==
  /\ json.pc = sse.pc
  /\ json.pc = "done" =>
       IF json.response.status # 200 \/ sse.response.status # 200
       THEN json.response = sse.response
       ELSE LET message == json.response.completion.message
                lines == sse.response.lines
            IN  /\ message.content = content
                /\ {message.tool_calls[i].id :
                      i \in 1..Len(message.tool_calls)} = streamedIds(lines)
                /\ \A i, j \in 1..Len(message.tool_calls) :
                      message.tool_calls[i].id = message.tool_calls[j].id
                        => i = j
                /\ \A i \in 1..Len(message.tool_calls) :
                      message.tool_calls[i].function.arguments
                        = emittedArguments(lines, message.tool_calls[i].id)
                /\ json.response.completion.finish_reason
                     = lines[Len(lines) - 1].finish_reason

\* the content of a completion: null for the empty text
contentOrNull(text) == IF text # <<>> THEN text ELSE NullText

agreeAsStated(json, sse) ==
  assemblersAgree(json, sse, contentDeltas(sse.response.lines))

agreeOnContentOrNull(json, sse) ==
  assemblersAgree(json, sse, contentOrNull(contentDeltas(sse.response.lines)))

\* C32 as stated: on every buffer the JSON and the SSE transform return an
\* error alike, and else the content of the completion is the content
\* deltas of the stream joined, its tool calls are the streamed ids, each
\* once, with the streamed argument fragments joined, and the finish_reason
\* is the same
AssemblersAgreeAsStated ==
  (decode.pc \in {"done", "hung"} /\ decode.path \in {"json", "sse"}) =>
    IF decode.path = "json"
    THEN agreeAsStated(decode,
                       transformProtobufToSSE(decode.frames, decode.tail))
    ELSE agreeAsStated(transformProtobufToJSON(decode.frames, decode.tail),
                       decode)

\* C32, amended: the same, with the content of the completion null where
\* the content deltas of the stream join to the empty text
AssemblersAgree ==
  (decode.pc \in {"done", "hung"} /\ decode.path \in {"json", "sse"}) =>
    IF decode.path = "json"
    THEN agreeOnContentOrNull(decode,
           transformProtobufToSSE(decode.frames, decode.tail))
    ELSE agreeOnContentOrNull(
           transformProtobufToJSON(decode.frames, decode.tail), decode)

\* the completion of the frames hello and world has the content
\* "hello world", which the stream of the same buffer sends in two deltas
HelloWorldAssembledBothWays ==
  /\ decode.pc = "done"
  /\ decode.path = "json"
  /\ decode.response.status = 200
  /\ decode.response.completion.message.content = TxtHello \o TxtWorld
  /\ Len(transformProtobufToSSE(decode.frames, decode.tail).response.lines) = 4


\* the number of consecutive selections, up to the last one that returned
\* the connection, that returned it
RECURSIVE runBefore(_, _, _)
runBefore(history, id, k) ==
  IF k = 0 \/ history[k].id # id THEN 0 ELSE 1 + runBefore(history, id, k - 1)

lastRun(history, id) ==
  LET uses == {k \in 1..Len(history) : history[k].id = id}
  IN  IF uses = {} THEN 0
      ELSE runBefore(history, id, CHOOSE k \in uses : \A j \in uses : j <= k)

\* C33: under round-robin no connection is handed out more than stickyLimit
\* times in a row while another connection is available, and the stored
\* consecutiveUseCount of a connection that has been used lies in
\* 1..stickyLimit and is the number of consecutive selections that returned
\* the connection
StickyCountIsRunLength ==
  (req[SerialReq].pc = "idle") =>
    /\ \A k \in 1..Len(served) :
         runBefore(served, served[k].id, k) > StickyLimitOf(settings) =>
           \A id \in ConnIds \ {served[k].id} :
             isAccountUnavailable(store[id].rateLimitedUntil, served[k].at)
    /\ \A id \in ConnIds :
         store[id].lastUsedAt # Null =>
           /\ store[id].consecutiveUseCount \in 1..StickyLimitOf(settings)
           /\ store[id].consecutiveUseCount = lastRun(served, id)


\* the frame in which a tool-call id is seen first
firstSeen(frames, id) ==
  CHOOSE k \in 1..Len(frames) :
    /\ frames[k].toolCall.id = id
    /\ \A j \in 1..(k - 1) : frames[j].toolCall.id # id

\* the indices that the tool-call deltas of an id carry in the lines
streamedIndices(lines, id) ==
  {lines[k].delta.tool_calls[1].index :
     k \in {i \in 1..Len(lines) : /\ lines[i].delta.tool_calls # <<>>
                                  /\ lines[i].delta.tool_calls[1].id = id}}

\* C34: in a 200 response of the SSE transform the n-th distinct tool-call
\* id of the frame stream has the index n - 1 in every delta that carries
\* it, so that no two ids share an index, whatever text frames lie between
ToolCallIndicesDense ==
  (decode.pc = "done" /\ decode.path = "sse"
     /\ decode.response.status = 200) =>
    \A id \in sentIds(decode.frames) :
      streamedIndices(decode.response.lines, id)
        = {Cardinality({o \in sentIds(decode.frames) :
                          firstSeen(decode.frames, o)
                            < firstSeen(decode.frames, id)})}


\* C35: for every status, error text and stored level checkFallbackError
\* answers shouldFallback with a cooldown; markAccountUnavailable therefore
\* writes a cooldown that lies ahead and returns shouldFallback, so that the
\* account loop goes on and the combo loop, which classifies the failed
\* response at level 0, goes on to the next model
EveryFailureFallsBack ==
  (cls.status # Null) =>
    LET marked == markAccountUnavailable(cls.status, cls.errorText,
                                         cls.backoffLevel, now)
    IN  /\ cls.out.shouldFallback
        /\ cls.out.cooldownMs \in Nat \ {0}
        /\ marked.shouldFallback
        /\ marked.written
        /\ marked.cooldownMs = cls.out.cooldownMs
        /\ marked.patch.rateLimitedUntil = now + cls.out.cooldownMs
        /\ isAccountUnavailable(marked.patch.rateLimitedUntil, now)
        /\ checkFallbackError(cls.status, cls.errorText, 0).shouldFallback

\* a 400 without a text, which no rule of the classifier names, has been
\* classified: it falls back with the transient cooldown
UnlistedStatusFallsBack ==
  /\ cls.status = 400
  /\ cls.errorText = NullText
  /\ cls.backoffLevel > 0
  /\ cls.out.cooldownMs = COOLDOWN_MS.transient


\* the active connections of the provider of a request
activeIds(r) ==
  {id \in ConnIds : store[id].provider = req[r].provider /\ store[id].isActive}

\* C36: while the upstream calls of all connections fail and no stored
\* cooldown runs out, a request makes no upstream call on a connection it
\* has failed on before, so at most one call per active connection, and the
\* selection that follows the failure of the last one answers with an error
SingleModelChatTerminates ==
  [][\A r \in Reqs :
       /\ (req[r].pc = "got" /\ req'[r].result # NoResult) =>
            /\ req[r].credentials.connection.id \notin req[r].attempted
            /\ req'[r].attempted
                 = req[r].attempted \cup {req[r].credentials.connection.id}
            /\ req'[r].attempted \subseteq activeIds(r)
       /\ (req[r].pc = "await" /\ req'[r].pc # "await"
             /\ req[r].attempted # {}
             /\ req[r].attempted = activeIds(r)) =>
            /\ req'[r].pc = "done"
            /\ req'[r].response.status \notin {Null, 200}
            /\ req'[r].credentials.kind \in {"allRateLimited", "null"}]_vars

\* a request has failed on A and on B, has found no connection left and has
\* answered with the status of its last failure
BothFailedThenAnswered ==
  \E r \in Reqs :
    /\ req[r].pc = "done"
    /\ req[r].attempted = {"A", "B"}
    /\ req[r].credentials.kind = "allRateLimited"
    /\ req[r].response.status = req[r].lastStatus
    /\ req[r].lastStatus # Null


\* the fields of a connection that a selection may write
SelectionFields == {"lastUsedAt", "consecutiveUseCount"}

\* a step of getProviderCredentials of request r
SelectionStep(r) ==
  /\ req[r].pc \in {"await", "readAll", "settings", "write", "written"}
  /\ req'[r].pc # req[r].pc

\* C37: a step of a selection changes no connection but the one it returns,
\* and of that one lastUsedAt and consecutiveUseCount only; a fill-first
\* selection and a selection that returns AllRateLimited or null write
\* nothing
SelectionWritesUseOnly ==
  [][\A r \in Reqs :
       SelectionStep(r) =>
         /\ \A id \in ConnIds :
              /\ \A f \in DOMAIN store[id] \ SelectionFields :
                   store'[id][f] = store[id][f]
              /\ store'[id] # store[id] =>
                   /\ req[r].pc = "write"
                   /\ id = req[r].credentials.connection.id
                   /\ StrategyOf(settings) = "round-robin"
         /\ req'[r].pc = "got" =>
              \A id \in ConnIds \ {req'[r].credentials.connection.id} :
                store'[id] = store[id]
         /\ StrategyOf(settings) = "fill-first" => store' = store
         /\ req'[r].pc = "done" => store' = store]_vars

\* a round-robin selection has written its use of a connection that carries
\* the error, the level and the run-out cooldown of an earlier 429
SelectedWithStaleError ==
  \E r \in Reqs :
    /\ req[r].pc = "written"
    /\ LET c == store[req[r].credentials.connection.id]
       IN  /\ c.lastUsedAt = now
           /\ c.consecutiveUseCount >= 1
           /\ c.rateLimitedUntil # Null
           /\ c.testStatus = "unavailable"
           /\ c.backoffLevel = 1
           /\ c.lastError = TxtRateLimit


\* C38: a call of getProviderCredentials that waits for the mutex enters
\* its critical section and returns or throws, whether the selections
\* before it returned or threw
MutexNeverDeadlocks ==
  \A r \in Reqs : (req[r].pc = "await") ~> (req[r].pc \in {"got", "done"})

\* a selection threw in a store call, and the call that had queued behind
\* it has returned a connection
ReturnedBehindThrow ==
  \E r, q \in Reqs :
    /\ req[r].response.kind = "exception"
    /\ req[q].pc = "got"
    /\ req[q].currentMutex = req[r].resolveMutex


\* a failure with the status 429 or with one of the rate-limit texts
IsRateLimitInput(status, errorText) ==
  \/ status = HTTP_STATUS.RATE_LIMITED
  \/ /\ TruthyText(errorText)
     /\ \E pat \in {PatRateLimit, PatTooManyRequests, PatQuotaExceeded,
                     PatCapacity, PatOverloaded} :
          includes(toLowerCase(errorText), pat)

\* the store before markAccountUnavailable: A in use, at a stored level
storeAtLevel(level) ==
  updateProviderConnection(store, "A",
    [backoffLevel |-> level, lastUsedAt |-> now, consecutiveUseCount |-> 2])

\* the store behind markAccountUnavailable(A, status, errorText)
storeMarked(before, status, errorText) ==
  updateProviderConnection(before, "A",
    markAccountUnavailable(
      status, errorText,
      readBackoffLevel(getProviderConnections(before, "p1", FALSE), "A"),
      now).patch)

\* C39: a failure without the status 429 and without a rate-limit text
\* leaves the backoffLevel of the connection at the level read from the
\* store, and markAccountUnavailable leaves lastUsedAt, consecutiveUseCount,
\* isActive and the tokens of every connection as they were
OtherFailuresKeepLevel ==
  (cls.status # Null) =>
    /\ ~IsRateLimitInput(cls.status, cls.errorText) =>
         /\ cls.stored = cls.backoffLevel
         /\ storeMarked(storeAtLevel(cls.backoffLevel), cls.status,
                        cls.errorText)["A"].backoffLevel = cls.backoffLevel
    /\ \A f \in {"lastUsedAt", "consecutiveUseCount", "isActive",
                  "accessToken", "refreshToken"} :
         storeMarked(storeAtLevel(cls.backoffLevel), cls.status,
                     cls.errorText)["A"][f]
           = storeAtLevel(cls.backoffLevel)["A"][f]
    /\ storeMarked(storeAtLevel(cls.backoffLevel), cls.status,
                   cls.errorText)["B"] = store["B"]

\* a 401 without a text on a connection at level 2 has left the level at 2
UnauthorizedAtLevelTwo ==
  /\ cls.status = 401
  /\ cls.errorText = NullText
  /\ cls.backoffLevel = 2
  /\ cls.stored = 2


\* the last selection before the k-th that returned the connection; 0 for
\* a connection not returned before
lastUse(history, id, k) ==
  LET uses == {j \in 1..(k - 1) : history[j].id = id}
  IN  IF uses = {} THEN 0 ELSE CHOOSE j \in uses : \A i \in uses : i <= j

\* the k-th selection stays with the connection of the one before, which
\* has not reached the limit
staysWithCurrent(history, k, stickyLimit) ==
  /\ k > 1
  /\ history[k].id = history[k - 1].id
  /\ runBefore(history, history[k].id, k - 1) < stickyLimit

\* C40: with the connections of the provider available and no failures,
\* every window of N * stickyLimit consecutive selections of a serial
\* caller returns every connection, and a selection that does not stay with
\* the current connection returns the least recently used one
RoundRobinVisitsAll ==
  LET window == Cardinality(ConnIds) * StickyLimitOf(settings)
  IN  /\ \A k \in 1..(Len(served) - window + 1) :
           \A id \in ConnIds :
             \E j \in k..(k + window - 1) : served[j].id = id
      /\ \A k \in 1..Len(served) :
           \/ staysWithCurrent(served, k, StickyLimitOf(settings))
           \/ \A id \in ConnIds :
                lastUse(served, served[k].id, k) <= lastUse(served, id, k)

====
